---- MODULE Spec2Model ----
(***************************************************************************)
(* Physical frame allocator of the kernel (src/src/allocator/physical.rs). *)
(*                                                                         *)
(* Chunk words are naturals below 2^BITS; every atomic instruction of the  *)
(* code (load, lock bts, compare_exchange, fetch_xor, fetch_add,           *)
(* fetch_sub) is one step of the core that executes it, together with the  *)
(* core-local computation that follows it up to the next shared access.    *)
(* The machine word is scaled down: a chunk word has BITS bits and a       *)
(* frame has FRAME_SIZE bytes; counters and addresses live in              *)
(* 0..USIZE_MAX.  Both build profiles are modelled: debug_assertions       *)
(* selects the checked build (debug_assert!, overflow checks).             *)
(***************************************************************************)
EXTENDS Integers, Sequences, FiniteSets, TLC

\* ---------------------------------------------------------------- bounds
\* usize::BITS, the width of one FrameBitmapChunk word (64 on the target).
BITS == 4
\* paging::PAGE_SIZE (4096 on the target), in bytes.
FRAME_SIZE == 4
\* core::mem::size_of::<FrameBitmapChunk>() (8 on the target), in bytes.
SIZE_OF_CHUNK == 2
\* Capacity of the ArrayVec of regions (4096 on the target).
MAX_MEMORY_REGION_COUNT == 2
\* Width of the counters and addresses of the model.
USIZE_BITS == 12
\* Cores that call into the allocator concurrently.
NumCores == 2
\* Calls one core makes in one behaviour when the cores run concurrently.
MaxCalls == 2
\* Calls the single caller makes in one behaviour of sequential use.
SeqCalls == 3

\* ------------------------------------------------------ program constants
MIN_FRAMES_REQUIRED == 4

USIZE_MAX == (2 ^ USIZE_BITS) - 1
WORD_MAX == (2 ^ BITS) - 1
\* const ALIGNMENT in MemoryRegion::new = FrameBitmapChunk::MEMORY_SIZE
ALIGNMENT == FRAME_SIZE * BITS
MEMORY_SIZE == BITS * FRAME_SIZE

\* ------------------------------------------------------------- bit tricks
Bit(w, b) == (w \div (2 ^ b)) % 2

RECURSIVE FromBits(_, _)
\* the word whose bit b is f[b], for b in 0..n-1
FromBits(f, n) == IF n = 0 THEN 0 ELSE FromBits(f, n - 1) + f[n - 1] * (2 ^ (n - 1))

BitAnd(a, b) == FromBits([i \in 0..(BITS - 1) |-> Bit(a, i) * Bit(b, i)], BITS)
BitOr(a, b) == FromBits([i \in 0..(BITS - 1) |-> IF Bit(a, i) + Bit(b, i) > 0 THEN 1 ELSE 0], BITS)
BitXor(a, b) == FromBits([i \in 0..(BITS - 1) |-> (Bit(a, i) + Bit(b, i)) % 2], BITS)
BitNot(a) == WORD_MAX - a

\* 1_usize << n in the unchecked build: the shift amount is taken modulo BITS.
ShlOneWrapping(n) == 2 ^ (n % BITS)
\* x << n on a word: bits shifted past the top are lost.
Shl(x, n) == (x * (2 ^ n)) % (2 ^ BITS)
\* usize::wrapping_sub(x, 1) on a word
WrappingSub1(x) == IF x = 0 THEN WORD_MAX ELSE x - 1

RECURSIVE PopCount(_)
PopCount(w) == IF w = 0 THEN 0 ELSE (w % 2) + PopCount(w \div 2)

Min(a, b) == IF a < b THEN a ELSE b
DivCeil(a, b) == (a + b - 1) \div b
NextMultipleOf(a, b) == DivCeil(a, b) * b
SaturatingSub(a, b) == IF a > b THEN a - b ELSE 0


\* ------------------------------------------------------------ memory map
\* boot::MemoryMapEntryKind
MemoryMapEntryKind == {"Usable", "Kernel", "Reserved"}

Entry(b, l, k) == [base |-> b, len |-> l, kind |-> k]

\* ------------------------------------------------- FrameBitmapChunk::new
\* The word is the initial value itself.
FrameBitmapChunk_new(initial_value) == initial_value % (2 ^ BITS)

\* ------------------------------------------------------ MemoryRegion::new
\* fn chunk_array_size(size): bytes of the chunk array
chunk_array_size(size) == (size \div ALIGNMENT) * SIZE_OF_CHUNK

\* The value start_reserved_frames_left has when chunk i is written.
RECURSIVE StartReservedLeft(_, _)
StartReservedLeft(frames, i) ==
    IF i = 0 THEN frames ELSE SaturatingSub(StartReservedLeft(frames, i - 1), BITS)

\* A panic of MemoryRegion::new after it has written `written` words to memory.
PanicAfter(why, written) ==
    [status |-> "panic", why |-> why, base |-> 0, chunks |-> << >>, wild |-> FALSE,
     written |-> written]
Panic(why) == PanicAfter(why, 0)

\* Mutant: the arguments are not checked, a region of one chunk is built.
MemoryRegion_new_Unasserted(base, size, dbg) ==
    {[status |-> "ok", why |-> "", base |-> base, chunks |-> <<0>>, wild |-> FALSE,
      written |-> 1]}

\* The possible outcomes of MemoryRegion::new(base, size, _) in the build
\* selected by dbg; written is the number of words it has written to memory
\* by then.  One outcome, except where the unchecked build computes
\* chunk_array_ptr.add(chunks_size - 1) with chunks_size = 0: the word it
\* then reads and ORs lies before the region (wild), and either outcome of
\* the assert_eq on it is possible.
MemoryRegion_new(base, size, dbg) ==
    IF base % FRAME_SIZE # 0 THEN {Panic("base")}
    ELSE IF size % FRAME_SIZE # 0 \/ ~(size > FRAME_SIZE) THEN {Panic("size")}
    ELSE
    LET region_end == NextMultipleOf(base + size, ALIGNMENT)
        chunks_size == chunk_array_size(size)
        chunks_size_frames == DivCeil(chunks_size, FRAME_SIZE)
        end_reserved_frames == (region_end - (base + size)) \div FRAME_SIZE
        \* the loop writes one chunk for every i in 0..chunks_size
        written == [i \in 1..chunks_size |->
                       FrameBitmapChunk_new(StartReservedLeft(chunks_size_frames, i - 1))]
        end_reserved_bits ==
            BitNot(WrappingSub1(ShlOneWrapping(BITS - end_reserved_frames)))
    IN  IF ~(chunks_size < size) THEN {Panic("chunks_size")}
        ELSE IF ~(end_reserved_frames < BITS) THEN {Panic("end_reserved_frames")}
        ELSE IF chunks_size = 0 THEN
            IF dbg THEN {Panic("subtract with overflow")}
            ELSE {Panic("assert_eq"),
                  [status |-> "ok", why |-> "", base |-> base, chunks |-> << >>, wild |-> TRUE,
                   written |-> 1]}
        ELSE IF dbg /\ end_reserved_frames = 0
             THEN {PanicAfter("shift left with overflow", chunks_size)}
        ELSE IF BitAnd(written[chunks_size], end_reserved_bits) # 0
             THEN {PanicAfter("assert_eq", chunks_size)}
        ELSE {[status |-> "ok", why |-> "", base |-> base,
               chunks |-> [written EXCEPT ![chunks_size] = BitOr(@, end_reserved_bits)],
               wild |-> FALSE, written |-> chunks_size]}

\* ---------------------------------------------------- FrameAllocator::fill
RECURSIVE SelectUsable(_)
SelectUsable(entries) ==
    IF entries = << >> THEN << >>
    ELSE IF Head(entries).kind = "Usable"
         THEN <<Head(entries)>> \o SelectUsable(Tail(entries))
         ELSE SelectUsable(Tail(entries))

\* The possible outcomes of fill on an empty allocator: the list of regions
\* (each [base, chunks]), or a panic raised by some MemoryRegion::new.
\* MemoryRegion::new runs before try_push, so the entry after the last one
\* that fits is still constructed.
RECURSIVE FillFrom(_, _, _)
FillFrom(usable, regions, dbg) ==
    IF usable = << >> THEN {[status |-> "ok", regions |-> regions]}
    ELSE UNION {
        IF r.status = "panic" THEN {[status |-> "panic", regions |-> regions]}
        ELSE IF Len(regions) >= MAX_MEMORY_REGION_COUNT
             THEN {[status |-> "ok", regions |-> regions]}
             ELSE FillFrom(Tail(usable),
                           Append(regions, [base |-> r.base, chunks |-> r.chunks]), dbg)
        : r \in MemoryRegion_new(Head(usable).base, Head(usable).len, dbg) }

fill(memory_map, dbg) == FillFrom(SelectUsable(memory_map), << >>, dbg)

\* ------------------------------------------------- MemoryRegion accessors
frame_count(region) == Len(region.chunks) * BITS
len(region) == frame_count(region) * FRAME_SIZE
end(region) == region.base + len(region)
check_if_owned(region, address) == address >= region.base /\ address < end(region)
chunk_index(region_base, address) == (address - region_base) \div (BITS * FRAME_SIZE)


\* ------------------------------------------------------------------ state
VARIABLES
    debug_assertions,       \* cfg(debug_assertions): the checked build
    memory_map,             \* the boot::MemoryMap the allocator is filled from
    regions,                \* FrameAllocator.regions: [base, frames_used, chunks]
    last_allocation_region, \* FrameAllocator.last_allocation_region
    core,                   \* per core: where it is in its current call, its locals
    held,                   \* per core: allocations returned to it and not yet freed
    init_lock,              \* ALLOCATOR.init_lock: the status of the spin::Once
    fill_calls,             \* how many times fill was called on ALLOCATOR
    vec,                    \* a FixedSizeVec<T, MAX_SIZE>: [data, len]
    vec_op                  \* the last call on vec: its name, arguments and result

vars == <<debug_assertions, memory_map, regions, last_allocation_region, core, held,
          init_lock, fill_calls, vec, vec_op>>

Cores == 1..NumCores

\* frame_count arguments the callers pass to allocate
FrameCounts == 0..(BITS + 1)
\* count arguments the callers pass to FrameBitmapChunk::allocate_many
ManyCounts == 0..BITS
\* positions in the list of allocations a core holds
HeldSlots == 1..(MaxCalls + SeqCalls)

NoRet == [kind |-> "none_yet", value |-> 0]
RetNone == [kind |-> "None", value |-> 0]
RetSome(v) == [kind |-> "Some", value |-> v]
RetUnit == [kind |-> "unit", value |-> 0]
RetPanic == [kind |-> "panic", value |-> 0]
RetToken == [kind |-> "token", value |-> 0]
RetOk == [kind |-> "Ok", value |-> 0]
RetErr == [kind |-> "Err", value |-> 0]
\* a reference to the slot data[ix]
RetRef(ix) == [kind |-> "ref", value |-> ix]

\* ---------------------------------------------------------- FixedSizeVec
\* MAX_SIZE of the FixedSizeVec of the model.
MAX_SIZE == 3
\* The bytes of a slot never written: MaybeUninit::uninit().
Uninit == 0
\* The values of T stored in the vector.
Values == 1..2

\* FixedSizeVec::new(): no slot written, len 0.
FixedSizeVec_new == [data |-> [i \in 0..(MAX_SIZE - 1) |-> Uninit], len |-> 0]
\* No call on the vector yet.
NoCall == [op |-> "none", index |-> 0, value |-> 0, ret |-> NoRet]

\* A core between calls: calls is the number of calls it may still make, op
\* and frame_count keep its last call and ret what that call returned;
\* everything else is cleared.  direct marks a call made on a
\* FrameBitmapChunk itself instead of through the FrameAllocator, and
\* before is the chunk word when such a call began.
Idle(calls, op, fc, ret) ==
    [pc |-> "idle", calls |-> calls, op |-> op, frame_count |-> fc, ret |-> ret,
     direct |-> FALSE, before |-> 0,
     start_region_id |-> 0, i |-> 0, region_ix |-> 0, chunk_ix |-> 0,
     bit |-> 0, shift |-> 0, previous |-> 0, tries |-> 0, address |-> 0]

Return(c, ret) == Idle(c.calls, c.op, c.frame_count, ret)

\* The panic handler halts the core that panicked (cli; hlt), for good.
Halt(c) == [Idle(c.calls, c.op, c.frame_count, RetPanic) EXCEPT !.pc = "panicked"]

Region(base, chunks) == [base |-> base, frames_used |-> 0, chunks |-> chunks]

\* An allocation as the caller holds it: the address (or, from a chunk, the
\* offset) and frame count it got; where the bits were set (region, chunk
\* and offset) and the chunk word before a direct call are kept for the
\* properties only.
Allocation(address, count, region_ix, chunk_ix, offset, before) ==
    [address |-> address, count |-> count,
     region_ix |-> region_ix, chunk_ix |-> chunk_ix, offset |-> offset,
     before |-> before]

Word(rs, region_ix, chunk_ix) == rs[region_ix].chunks[chunk_ix + 1]
\* Mutant: the word is written behind the last chunk of the region.
SetWord_Appended(rs, region_ix, chunk_ix, w) ==
    [rs EXCEPT ![region_ix].chunks = Append(@, w)]

SetWord(rs, region_ix, chunk_ix, w) ==
    [rs EXCEPT ![region_ix].chunks[chunk_ix + 1] = w]

\* ----------------------------------------- FrameAllocator::allocate, loop
\* (start_region_id + i) % region_count; -1 where the checked build panics
\* on the overflow of the addition.
\* Mutant: the probing starts at region 0 whatever the cursor was.
ProbeIndex_FromZero(start_region_id, i, region_count, dbg) == i % region_count

ProbeIndex(start_region_id, i, region_count, dbg) ==
    IF start_region_id + i > USIZE_MAX
    THEN IF dbg THEN -1 ELSE ((start_region_id + i) % (2 ^ USIZE_BITS)) % region_count
    ELSE (start_region_id + i) % region_count

\* Mutant: the bound of the test is off by one.
TooManyFrames_OffByOne(fc) == fc > BITS + 1

\* frame_count > usize::BITS: MemoryRegion::allocate refuses at once.
TooManyFrames(fc) == fc > BITS

\* The core enters iteration i of the loop over the regions and runs up to
\* the first shared access of MemoryRegion::allocate, the load of
\* frames_used.  A frame_count above the word width is refused by every
\* region without any shared access.
RECURSIVE EnterRegion(_, _, _, _)
EnterRegion(c, i, rs, dbg) ==
    IF i >= Len(rs) THEN Return(c, RetNone)
    ELSE IF ProbeIndex(c.start_region_id, i, Len(rs), dbg) = -1 THEN Halt(c)
    ELSE IF TooManyFrames(c.frame_count) THEN EnterRegion(c, i + 1, rs, dbg)
    ELSE [c EXCEPT !.pc = "frames_available", !.i = i,
                   !.region_ix = ProbeIndex(c.start_region_id, i, Len(rs), dbg) + 1,
                   !.chunk_ix = 0, !.bit = 0, !.shift = 0, !.previous = 0, !.tries = 0]

\* The loop over the chunks of a region moves on to chunk number chunk_ix
\* (from 0); past the last chunk the region returns None.  A direct call
\* on a chunk returns its None to the caller.
NextChunk(c, chunk_ix, rs, dbg) ==
    IF c.direct THEN Return(c, RetNone)
    ELSE IF chunk_ix < Len(rs[c.region_ix].chunks)
    THEN [c EXCEPT !.pc = IF c.frame_count = 1 THEN "allocate_single" ELSE "allocate_many",
                   !.chunk_ix = chunk_ix, !.bit = 0, !.shift = 0, !.previous = 0, !.tries = 0]
    ELSE EnterRegion(c, c.i + 1, rs, dbg)

\* The chunk has returned Some(offset): MemoryRegion::allocate computes the
\* address and goes on to its fetch_add; a direct caller has its offset.
AllocatedAddress(region, chunk_ix, offset) ==
    (chunk_ix * MEMORY_SIZE) + (offset * FRAME_SIZE)

\* Mutant: the bits are set and the caller is told None.
ChunkReturnedSome_Dropped(c, offset, rs) == Return(c, RetNone)

ChunkReturnedSome(c, offset, rs) ==
    IF c.direct THEN Return(c, RetSome(offset))
    ELSE [c EXCEPT !.pc = "fetch_add",
                   !.address = AllocatedAddress(rs[c.region_ix], c.chunk_ix, offset)]

\* What the caller of a direct call holds once the chunk returned Some.
HeldAfter(h, c, offset) ==
    IF c.direct
    THEN Append(h, Allocation(offset, c.frame_count, c.region_ix, c.chunk_ix, offset, c.before))
    ELSE h


\* --------------------------------------------- FrameAllocator::allocate
\* The call and its fetch_add on the cursor.
allocate(t, fc) ==
    /\ core[t].pc = "idle"
    /\ core[t].calls > 0
    /\ last_allocation_region' = (last_allocation_region + 1) % (2 ^ USIZE_BITS)
    /\ core' = [core EXCEPT ![t] =
           EnterRegion([Idle(core[t].calls - 1, "allocate", fc, NoRet)
                            EXCEPT !.start_region_id = last_allocation_region],
                       0, regions, debug_assertions)]
    /\ UNCHANGED <<init_lock, fill_calls, debug_assertions, vec, vec_op, memory_map, regions, held>>

\* ------------------------------------------------ MemoryRegion::allocate
\* frames_available(): the load of frames_used and the headroom test.
frames_available(t) ==
    LET c == core[t]
        r == regions[c.region_ix]
        underflow == r.frames_used > frame_count(r)
        available == (frame_count(r) - r.frames_used) % (2 ^ USIZE_BITS)
    IN  /\ c.pc = "frames_available"
        /\ core' = [core EXCEPT ![t] =
               IF underflow /\ debug_assertions THEN Halt(c)
               ELSE IF available < MIN_FRAMES_REQUIRED
                    THEN EnterRegion(c, c.i + 1, regions, debug_assertions)
                    ELSE NextChunk(c, 0, regions, debug_assertions)]
        /\ UNCHANGED <<init_lock, fill_calls, debug_assertions, vec, vec_op, memory_map, regions, last_allocation_region, held>>

\* frames_used.fetch_add(frame_count) and the return of Some(address).
fetch_add(t) ==
    LET c == core[t]
        offset == IF c.frame_count = 1 THEN c.bit ELSE c.shift
    IN  /\ c.pc = "fetch_add"
        /\ regions' = [regions EXCEPT ![c.region_ix].frames_used =
                           (@ + c.frame_count) % (2 ^ USIZE_BITS)]
        /\ held' = [held EXCEPT ![t] = Append(@,
                        Allocation(c.address, c.frame_count, c.region_ix, c.chunk_ix, offset, 0))]
        /\ core' = [core EXCEPT ![t] = Return(c, RetSome(c.address))]
        /\ UNCHANGED <<init_lock, fill_calls, debug_assertions, vec, vec_op, memory_map, last_allocation_region>>

\* ------------------------------------- FrameBitmapChunk::allocate_single
\* The load that rejects a full word.
SingleLoad(c, rs, dbg) ==
    IF Word(rs, c.region_ix, c.chunk_ix) # WORD_MAX
    THEN [c EXCEPT !.pc = "bts", !.bit = 0]
    ELSE NextChunk(c, c.chunk_ix + 1, rs, dbg)

allocate_single(t) ==
    /\ core[t].pc = "allocate_single"
    /\ core' = [core EXCEPT ![t] = SingleLoad(core[t], regions, debug_assertions)]
    /\ UNCHANGED <<init_lock, fill_calls, debug_assertions, vec, vec_op, memory_map, regions, last_allocation_region, held>>

\* Mutant: the carry flag is ignored, the first bit tested is returned.
atomic_bit_test_set_Blind(t) ==
    LET c == core[t]
        w == Word(regions, c.region_ix, c.chunk_ix)
    IN  /\ c.pc = "bts"
        /\ regions' = SetWord(regions, c.region_ix, c.chunk_ix, BitOr(w, 2 ^ c.bit))
        /\ core' = [core EXCEPT ![t] = ChunkReturnedSome(c, c.bit, regions)]
        /\ held' = [held EXCEPT ![t] = HeldAfter(@, c, c.bit)]
        /\ UNCHANGED <<init_lock, fill_calls, debug_assertions, vec, vec_op, memory_map, last_allocation_region>>

\* lock bts: sets bit c.bit, the carry flag is its previous value.
atomic_bit_test_set(t) ==
    LET c == core[t]
        w == Word(regions, c.region_ix, c.chunk_ix)
        was_set == Bit(w, c.bit) = 1
    IN  /\ c.pc = "bts"
        /\ regions' = SetWord(regions, c.region_ix, c.chunk_ix,
                              IF was_set THEN w ELSE w + (2 ^ c.bit))
        /\ core' = [core EXCEPT ![t] =
               IF ~was_set THEN ChunkReturnedSome(c, c.bit, regions)
               ELSE IF c.bit + 1 < BITS THEN [c EXCEPT !.bit = c.bit + 1]
               ELSE NextChunk(c, c.chunk_ix + 1, regions, debug_assertions)]
        /\ held' = [held EXCEPT ![t] = IF ~was_set THEN HeldAfter(@, c, c.bit) ELSE @]
        /\ UNCHANGED <<init_lock, fill_calls, debug_assertions, vec, vec_op, memory_map, last_allocation_region>>

\* --------------------------------------- FrameBitmapChunk::allocate_many
\* (1_usize << count).wrapping_sub(1)
CountMask(count) == WrappingSub1(ShlOneWrapping(count))
\* usize::BITS as u8 - count, in u8
ShiftCount(count) == (BITS - count) % 256
ShiftedMask(count, shift) == Shl(CountMask(count), shift % BITS)
\* Mutant: the window is not tested against the word.
WindowClear_Untested(previous, shifted_mask) == TRUE

\* (!previous & shifted_mask) == shifted_mask
WindowClear(previous, shifted_mask) == BitAnd(BitNot(previous), shifted_mask) = shifted_mask

\* The shifts from `from` on whose window is clear in `previous`: the loop
\* over the shifts skips the others without a shared access.
ClearShifts(previous, count, from) ==
    {s \in from..(ShiftCount(count) - 1) : WindowClear(previous, ShiftedMask(count, s))}

SetMin(S) == CHOOSE x \in S : \A y \in S : x <= y

\* The core goes on with the first shift from `from` on that it will try a
\* compare_exchange at; with none left allocate_many returns None.
NextShift(c, previous, from, rs, dbg) ==
    IF ClearShifts(previous, c.frame_count, from) = {}
    THEN NextChunk(c, c.chunk_ix + 1, rs, dbg)
    ELSE [c EXCEPT !.pc = "compare_exchange", !.previous = previous, !.tries = 0,
                   !.shift = SetMin(ClearShifts(previous, c.frame_count, from))]

\* debug_assert_arg!(count < BITS) and the load of `previous`.
ManyLoad(c, rs, dbg) ==
    IF dbg /\ ~(c.frame_count < BITS) THEN Halt(c)
    ELSE NextShift(c, Word(rs, c.region_ix, c.chunk_ix), 0, rs, dbg)

allocate_many(t) ==
    /\ core[t].pc = "allocate_many"
    /\ core' = [core EXCEPT ![t] = ManyLoad(core[t], regions, debug_assertions)]
    /\ UNCHANGED <<init_lock, fill_calls, debug_assertions, vec, vec_op, memory_map, regions, last_allocation_region, held>>

\* Mutant: a window that stays clear is retried without a bound.
compare_exchange_Unbounded(t) ==
    LET c == core[t]
        w == Word(regions, c.region_ix, c.chunk_ix)
        shifted_mask == ShiftedMask(c.frame_count, c.shift)
    IN  /\ c.pc = "compare_exchange"
        /\ IF w = c.previous
           THEN /\ regions' = SetWord(regions, c.region_ix, c.chunk_ix,
                                      BitOr(c.previous, shifted_mask))
                /\ core' = [core EXCEPT ![t] = ChunkReturnedSome(c, c.shift, regions)]
                /\ held' = [held EXCEPT ![t] = HeldAfter(@, c, c.shift)]
           ELSE /\ regions' = regions
                /\ core' = [core EXCEPT ![t] =
                       IF WindowClear(w, shifted_mask)
                       THEN [c EXCEPT !.previous = w, !.tries = c.tries + 1]
                       ELSE NextShift(c, w, c.shift + 1, regions, debug_assertions)]
                /\ held' = held
        /\ UNCHANGED <<init_lock, fill_calls, debug_assertions, vec, vec_op, memory_map, last_allocation_region>>

\* One compare_exchange(previous, previous | shifted_mask).
compare_exchange(t) ==
    LET c == core[t]
        w == Word(regions, c.region_ix, c.chunk_ix)
        shifted_mask == ShiftedMask(c.frame_count, c.shift)
    IN  /\ c.pc = "compare_exchange"
        /\ IF w = c.previous
           THEN /\ regions' = SetWord(regions, c.region_ix, c.chunk_ix,
                                      BitOr(c.previous, shifted_mask))
                /\ core' = [core EXCEPT ![t] = ChunkReturnedSome(c, c.shift, regions)]
                /\ held' = [held EXCEPT ![t] = HeldAfter(@, c, c.shift)]
           ELSE /\ regions' = regions
                /\ core' = [core EXCEPT ![t] =
                       IF c.tries + 1 < 2 /\ WindowClear(w, shifted_mask)
                       THEN [c EXCEPT !.previous = w, !.tries = c.tries + 1]
                       ELSE NextShift(c, w, c.shift + 1, regions, debug_assertions)]
                /\ held' = held
        /\ UNCHANGED <<init_lock, fill_calls, debug_assertions, vec, vec_op, memory_map, last_allocation_region>>

\* ----------------------------------------------- FrameBitmapChunk::free
\* Mutant: the mask is not shifted to the offset.
FrameBitmapChunk_free_Unshifted(old, offset, count, dbg) ==
    [early_panic |-> ~(count <= BITS) \/ (dbg /\ count >= BITS),
     word |-> BitXor(old, CountMask(count)),
     late_panic |-> dbg /\ BitAnd(old, CountMask(count)) # CountMask(count)]

\* free(offset, count) on a chunk whose word is `old`: the word after the
\* fetch_xor, and whether a check panics before it (early) or after it (late).
FrameBitmapChunk_free(old, offset, count, dbg) ==
    LET mask == Shl(CountMask(count), offset)
    IN  [early_panic |-> \/ ~(count <= BITS)        \* assert!(count <= BITS)
                         \/ dbg /\ count >= BITS,   \* 1_usize << count overflows
         word |-> BitXor(old, mask),
         late_panic |-> dbg /\ BitAnd(old, mask) # mask]   \* "Double free detected"


\* ------------------------------------------------- FrameAllocator::free
\* The comparator handed to binary_search_by.
Compare(region, address) ==
    IF check_if_owned(region, address) THEN "Equal"
    ELSE IF region.base < address THEN "Less"
    ELSE "Greater"

\* <[T]>::binary_search_by over rs[left+1 .. right]: the index (from 1) of
\* the element it finds Equal, or 0 for Err.
RECURSIVE BinarySearch(_, _, _, _)
BinarySearch(rs, address, left, right) ==
    IF ~(left < right) THEN 0
    ELSE LET mid == left + ((right - left) \div 2)
             cmp == Compare(rs[mid + 1], address)
         IN  IF cmp = "Less" THEN BinarySearch(rs, address, mid + 1, right)
             ELSE IF cmp = "Greater" THEN BinarySearch(rs, address, left, mid)
             ELSE mid + 1

\* What MemoryRegion::free does up to and including the fetch_xor of the
\* chunk, for the region the search found: the chunk it picks, the word it
\* leaves there, and whether a check of the build panics before or after.
MemoryRegion_free(region, address, count, dbg) ==
    LET chunk_ix == chunk_index(region.base, address)
        offset == (address \div FRAME_SIZE) % BITS
        in_bounds == chunk_ix >= 0 /\ chunk_ix < Len(region.chunks)
        chunk == FrameBitmapChunk_free(IF in_bounds THEN region.chunks[chunk_ix + 1] ELSE 0,
                                       offset, count, dbg)
    IN  [chunk_ix |-> chunk_ix, offset |-> offset, word |-> chunk.word,
         early_panic |-> \/ dbg /\ ~check_if_owned(region, address)   \* debug_assert_arg!
                         \/ dbg /\ ~(count <= BITS)      \* debug_assert_arg!
                         \/ ~in_bounds                   \* self.chunks[chunk_ix]
                         \/ chunk.early_panic,
         late_panic |-> chunk.late_panic]

\* free(address, frame_count) of the k-th allocation the core holds: the
\* search for the owning region, then the fetch_xor on the chunk.
free(t, k) ==
    LET c == core[t]
        a == held[t][k]
        called == Idle(c.calls - 1, "free", a.count, NoRet)
        region_ix == BinarySearch(regions, a.address, 0, Len(regions))
        plan == MemoryRegion_free(regions[region_ix], a.address, a.count, debug_assertions)
    IN  /\ c.pc = "idle"
        /\ c.calls > 0
        /\ k <= Len(held[t])
        /\ held' = [held EXCEPT ![t] = SubSeq(@, 1, k - 1) \o SubSeq(@, k + 1, Len(@))]
        /\ IF region_ix = 0 THEN
               \* .expect("Attempted to free an invalid address")
               /\ core' = [core EXCEPT ![t] = Halt(called)]
               /\ regions' = regions
           ELSE IF plan.early_panic THEN
               /\ core' = [core EXCEPT ![t] = Halt(called)]
               /\ regions' = regions
           ELSE
               /\ regions' = SetWord(regions, region_ix, plan.chunk_ix, plan.word)
               /\ core' = [core EXCEPT ![t] =
                      IF plan.late_panic THEN Halt(called)
                      ELSE [called EXCEPT !.pc = "fetch_sub", !.region_ix = region_ix,
                                          !.address = a.address]]
        /\ UNCHANGED <<init_lock, fill_calls, debug_assertions, vec, vec_op, memory_map, last_allocation_region>>

\* frames_used.fetch_sub(frame_count) and the return of free.
fetch_sub(t) ==
    LET c == core[t]
    IN  /\ c.pc = "fetch_sub"
        /\ regions' = [regions EXCEPT ![c.region_ix].frames_used =
                           (@ - c.frame_count) % (2 ^ USIZE_BITS)]
        /\ core' = [core EXCEPT ![t] = Return(c, RetUnit)]
        /\ UNCHANGED <<init_lock, fill_calls, debug_assertions, vec, vec_op, memory_map, last_allocation_region, held>>

\* Mutant: a search that finds no region is passed over in silence.
free_address_Unchecked(t, address, fc) ==
    /\ core[t].pc = "idle"
    /\ core[t].calls > 0
    /\ core' = [core EXCEPT ![t] =
           [Idle(core[t].calls - 1, "free", fc, RetUnit) EXCEPT !.address = address]]
    /\ UNCHANGED <<init_lock, fill_calls, debug_assertions, vec, vec_op, memory_map, regions, last_allocation_region, held>>

\* free(address, frame_count) with any arguments, whether or not the caller
\* holds such an allocation.  The core keeps the address it passed.
free_address(t, address, fc) ==
    LET c == core[t]
        called == [Idle(c.calls - 1, "free", fc, NoRet) EXCEPT !.address = address]
        halted == [Halt(called) EXCEPT !.address = address]
        region_ix == BinarySearch(regions, address, 0, Len(regions))
        plan == MemoryRegion_free(regions[region_ix], address, fc, debug_assertions)
    IN  /\ c.pc = "idle"
        /\ c.calls > 0
        /\ held' = [held EXCEPT ![t] =
               SelectSeq(@, LAMBDA a : ~(a.address = address /\ a.count = fc))]
        /\ IF region_ix = 0 THEN
               \* .expect("Attempted to free an invalid address")
               /\ core' = [core EXCEPT ![t] = halted]
               /\ regions' = regions
           ELSE IF plan.early_panic THEN
               /\ core' = [core EXCEPT ![t] = halted]
               /\ regions' = regions
           ELSE
               /\ regions' = SetWord(regions, region_ix, plan.chunk_ix, plan.word)
               /\ core' = [core EXCEPT ![t] =
                      IF plan.late_panic THEN halted
                      ELSE [called EXCEPT !.pc = "fetch_sub", !.region_ix = region_ix]]
        /\ UNCHANGED <<init_lock, fill_calls, debug_assertions, vec, vec_op, memory_map, last_allocation_region>>

\* ----------------------------------- calls on one FrameBitmapChunk itself
\* The chunk is chunk 0 of region 1.
DirectCall(c, op, count, rs) ==
    [Idle(c.calls - 1, op, count, NoRet) EXCEPT
        !.direct = TRUE, !.region_ix = 1, !.chunk_ix = 0, !.before = Word(rs, 1, 0)]

\* chunk.allocate_single(): the call and its load.
call_allocate_single(t) ==
    /\ core[t].pc = "idle"
    /\ core[t].calls > 0
    /\ core' = [core EXCEPT ![t] =
           SingleLoad(DirectCall(core[t], "allocate_single", 1, regions),
                      regions, debug_assertions)]
    /\ UNCHANGED <<init_lock, fill_calls, debug_assertions, vec, vec_op, memory_map, regions, last_allocation_region, held>>

\* chunk.allocate_many(count): the call, its debug assertion and its load.
call_allocate_many(t, count) ==
    /\ core[t].pc = "idle"
    /\ core[t].calls > 0
    /\ core' = [core EXCEPT ![t] =
           ManyLoad(DirectCall(core[t], "allocate_many", count, regions),
                    regions, debug_assertions)]
    /\ UNCHANGED <<init_lock, fill_calls, debug_assertions, vec, vec_op, memory_map, regions, last_allocation_region, held>>

\* chunk.free(offset, count) of the k-th allocation the core holds.
call_free(t, k) ==
    LET c == core[t]
        a == held[t][k]
        called == DirectCall(c, "free", a.count, regions)
        chunk == FrameBitmapChunk_free(Word(regions, 1, 0), a.offset, a.count, debug_assertions)
    IN  /\ c.pc = "idle"
        /\ c.calls > 0
        /\ k <= Len(held[t])
        /\ held' = [held EXCEPT ![t] = SubSeq(@, 1, k - 1) \o SubSeq(@, k + 1, Len(@))]
        /\ regions' = IF chunk.early_panic THEN regions ELSE SetWord(regions, 1, 0, chunk.word)
        /\ core' = [core EXCEPT ![t] =
               IF chunk.early_panic \/ chunk.late_panic THEN Halt(called)
               ELSE Return(called, RetUnit)]
        /\ UNCHANGED <<init_lock, fill_calls, debug_assertions, vec, vec_op, memory_map, last_allocation_region>>


\* chunk.free(offset, count) with any arguments, whether or not the caller
\* holds such an allocation.  The core keeps the offset it passed (bit) and
\* the word the chunk had (before).
call_free_at(t, offset, count) ==
    LET c == core[t]
        called == [DirectCall(c, "free", count, regions) EXCEPT !.bit = offset]
        chunk == FrameBitmapChunk_free(Word(regions, 1, 0), offset, count, debug_assertions)
        kept(after) == [after EXCEPT !.bit = offset, !.before = called.before]
    IN  /\ c.pc = "idle"
        /\ c.calls > 0
        /\ held' = [held EXCEPT ![t] =
               SelectSeq(@, LAMBDA a : ~(a.offset = offset /\ a.count = count))]
        /\ regions' = IF chunk.early_panic THEN regions ELSE SetWord(regions, 1, 0, chunk.word)
        /\ core' = [core EXCEPT ![t] =
               IF chunk.early_panic \/ chunk.late_panic THEN kept(Halt(called))
               ELSE kept(Return(called, RetUnit))]
        /\ UNCHANGED <<init_lock, fill_calls, debug_assertions, vec, vec_op, memory_map, last_allocation_region>>

\* ------------------------------------------------------------- initialize
\* The call and its test of ALLOCATOR.is_completed(): the best effort panic.
initialize(t) ==
    LET called == Idle(core[t].calls - 1, "initialize", 0, NoRet)
    IN  /\ core[t].pc = "idle"
        /\ core[t].calls > 0
        /\ core' = [core EXCEPT ![t] =
               IF init_lock = "Complete" THEN Halt(called)
               ELSE [called EXCEPT !.pc = "call_once"]]
        /\ UNCHANGED <<init_lock, fill_calls, debug_assertions, vec, vec_op, memory_map, regions,
                       last_allocation_region, held>>

\* Mutant: the exchange of the status succeeds while another core runs.
call_once_enters_Running(status) == status # "Complete"

\* Once::call_once runs the closure when its compare_exchange of the status
\* from Incomplete to Running succeeds.
call_once_enters(status) == status = "Incomplete"

\* Mutant: the caller does not wait for the core that runs the closure.
call_once_waits_Never(status) == FALSE

\* Once::call_once spins while the status is Running.
call_once_waits(status) == status = "Running"

\* init_lock.call_once(..): the core that exchanges the status runs the
\* closure, that is allocator.fill(memory_map, _); a core that finds the
\* status Complete returns from InitOnce::initialize and initialize returns
\* the token to it.
call_once(t) ==
    LET c == core[t]
    IN  /\ c.pc = "call_once"
        /\ IF call_once_enters(init_lock)
           THEN /\ init_lock' = "Running"
                /\ fill_calls' = fill_calls + 1
                /\ core' = [core EXCEPT ![t] = [c EXCEPT !.pc = "fill", !.i = 0]]
           ELSE /\ ~call_once_waits(init_lock)
                /\ core' = [core EXCEPT ![t] = Return(c, RetToken)]
                /\ UNCHANGED <<init_lock, fill_calls>>
        /\ UNCHANGED <<debug_assertions, vec, vec_op, memory_map, regions, last_allocation_region, held>>

\* Mutant: try_push never fails.
try_push_is_err_Never(rs) == FALSE

\* self.regions.try_push(region).is_err(): the ArrayVec is full.
try_push_is_err(rs) == Len(rs) >= MAX_MEMORY_REGION_COUNT

\* One iteration of the loop of fill, run by the closure: MemoryRegion::new
\* on the next Usable entry (entry number i + 1), then try_push.  After the
\* last entry or a failed try_push the closure returns.
FillEntry(t) ==
    LET c == core[t]
        usable == SelectUsable(memory_map)
    IN  /\ c.pc = "fill"
        /\ IF c.i >= Len(usable)
           THEN /\ core' = [core EXCEPT ![t] = [c EXCEPT !.pc = "finish"]]
                /\ regions' = regions
           ELSE \E r \in MemoryRegion_new(usable[c.i + 1].base, usable[c.i + 1].len,
                                          debug_assertions) :
                   IF r.status = "panic"
                   THEN /\ core' = [core EXCEPT ![t] = [Halt(c) EXCEPT !.op = "fill", !.i = c.i]]
                        /\ regions' = regions
                   ELSE IF try_push_is_err(regions)
                   THEN /\ core' = [core EXCEPT ![t] = [c EXCEPT !.pc = "finish"]]
                        /\ regions' = regions
                   ELSE /\ core' = [core EXCEPT ![t] = [c EXCEPT !.i = c.i + 1]]
                        /\ regions' = Append(regions, Region(r.base, r.chunks))
        /\ UNCHANGED <<init_lock, fill_calls, debug_assertions, vec, vec_op, memory_map,
                       last_allocation_region, held>>

\* The closure has returned: call_once stores Complete, InitOnce::initialize
\* returns and initialize returns the token.
call_once_finish(t) ==
    /\ core[t].pc = "finish"
    /\ init_lock' = "Complete"
    /\ core' = [core EXCEPT ![t] = Return(core[t], RetToken)]
    /\ UNCHANGED <<fill_calls, debug_assertions, vec, vec_op, memory_map, regions,
                   last_allocation_region, held>>

\* ------------------------------------------------------------ memory maps
\* Memory maps the loader hands over: ascending by base, Usable entries
\* disjoint, every Usable entry frame aligned and longer than one frame.
\* One region at address 0, one region at a chunk-aligned base above 0, and
\* two regions with a hole between them.
MemoryMaps ==
    { <<Entry(0, ALIGNMENT + FRAME_SIZE, "Usable")>>,
      <<Entry(0, ALIGNMENT, "Kernel"), Entry(ALIGNMENT, ALIGNMENT + FRAME_SIZE, "Usable")>>,
      <<Entry(0, ALIGNMENT + FRAME_SIZE, "Usable"),
        Entry(ALIGNMENT + FRAME_SIZE, FRAME_SIZE, "Reserved"),
        Entry(3 * ALIGNMENT, ALIGNMENT + (2 * FRAME_SIZE), "Usable")>> }

\* More maps for sequential use: every base and length of a small grid.
SeqBases == {0, FRAME_SIZE, ALIGNMENT}
SeqLens == {ALIGNMENT, ALIGNMENT + FRAME_SIZE, 2 * ALIGNMENT, (2 * ALIGNMENT) + FRAME_SIZE,
            (3 * ALIGNMENT) + FRAME_SIZE}
SeqMemoryMaps ==
    MemoryMaps \cup {<<Entry(b, l, "Usable")>> : b \in SeqBases, l \in SeqLens}

\* Every frame-aligned base and length of a grid, for the constructor.
BootBases == {f * FRAME_SIZE : f \in 0..((2 * BITS) - 1)}
BootLens == {f * FRAME_SIZE : f \in 2..((3 * BITS) + 1)}
BootMemoryMaps ==
    MemoryMaps \cup {<<Entry(b, l, "Usable")>> : b \in BootBases, l \in BootLens}

\* Maps for frees of any address: with these also one entry at a base that
\* is not chunk aligned, and two entries of which the first is more than two
\* chunk spans long.
FreeMemoryMaps ==
    MemoryMaps \cup
    { <<Entry(FRAME_SIZE, 2 * ALIGNMENT, "Usable")>>,
      <<Entry(0, (2 * ALIGNMENT) + FRAME_SIZE, "Usable"),
        Entry(3 * ALIGNMENT, ALIGNMENT + FRAME_SIZE, "Usable")>> }

\* The addresses passed to free: every frame up to 8 chunk spans, and two
\* addresses inside a frame.
FreeAddresses ==
    {f * FRAME_SIZE : f \in 0..(8 * BITS)} \cup {ALIGNMENT + 1, (7 * ALIGNMENT) + 1}

\* Maps for initialize: with these also more Usable entries than the
\* allocator has room for, and entries MemoryRegion::new must refuse.
GateMemoryMaps ==
    MemoryMaps \cup
    { <<Entry(0, ALIGNMENT + FRAME_SIZE, "Usable"),
        Entry(2 * ALIGNMENT, ALIGNMENT, "Kernel"),
        Entry(3 * ALIGNMENT, ALIGNMENT + FRAME_SIZE, "Usable"),
        Entry(6 * ALIGNMENT, ALIGNMENT + (2 * FRAME_SIZE), "Usable")>>,
      <<Entry(0, ALIGNMENT + FRAME_SIZE, "Usable"),
        Entry(3 * ALIGNMENT, ALIGNMENT + FRAME_SIZE, "Usable"),
        Entry(6 * ALIGNMENT, ALIGNMENT + (2 * FRAME_SIZE), "Usable"),
        Entry(9 * ALIGNMENT, ALIGNMENT, "Reserved"),
        Entry(10 * ALIGNMENT, (2 * ALIGNMENT) + FRAME_SIZE, "Usable")>>,
      <<Entry(FRAME_SIZE \div 2, ALIGNMENT + FRAME_SIZE, "Usable")>>,
      <<Entry(0, ALIGNMENT + (FRAME_SIZE \div 2), "Usable")>>,
      <<Entry(0, ALIGNMENT + FRAME_SIZE, "Usable"),
        Entry(3 * ALIGNMENT, FRAME_SIZE, "Usable")>>,
      <<Entry(ALIGNMENT, 0, "Usable")>> }

\* ------------------------------------------------------------------- Init
Regions(built) == [n \in 1..Len(built) |-> Region(built[n].base, built[n].chunks)]

\* The state when initialize has returned: fill ran to completion on the
\* empty allocator built from one of `maps`, in either build; calls[t] is
\* the number of calls core t will make.
Filled(maps, calls) ==
    /\ debug_assertions \in BOOLEAN
    /\ vec = FixedSizeVec_new
    /\ vec_op = NoCall
    /\ memory_map \in maps
    /\ \E f \in fill(memory_map, debug_assertions) :
          /\ f.status = "ok"
          /\ regions = Regions(f.regions)
    /\ last_allocation_region = 0
    /\ core = [t \in Cores |-> Idle(calls[t], "none", 0, NoRet)]
    /\ held = [t \in Cores |-> << >>]
    /\ init_lock = "Complete"
    /\ fill_calls = 1

OnlyCore1 == [t \in Cores |-> IF t = 1 THEN SeqCalls ELSE 0]
EveryCore == [t \in Cores |-> MaxCalls]

Init == Filled(MemoryMaps, EveryCore)

InitSeq == Filled(SeqMemoryMaps, OnlyCore1)

InitFree == Filled(FreeMemoryMaps, [t \in Cores |-> IF t = 1 THEN MaxCalls ELSE 0])

\* The region of the scenario: exactly 2 * BITS frames, none reserved,
\* nothing allocated.
FixtureBases == {0, ALIGNMENT, 3 * FRAME_SIZE}
InitFixture ==
    /\ debug_assertions \in BOOLEAN
    /\ vec = FixedSizeVec_new
    /\ vec_op = NoCall
    /\ memory_map = << >>
    /\ \E b \in FixtureBases : regions = <<Region(b, <<0, 0>>)>>
    /\ last_allocation_region = 0
    /\ core = [t \in Cores |-> Idle(OnlyCore1[t], "none", 0, NoRet)]
    /\ held = [t \in Cores |-> << >>]
    /\ init_lock = "Complete"
    /\ fill_calls = 1

\* One FrameBitmapChunk on its own, with any word.
ChunkAlone(calls) ==
    /\ debug_assertions \in BOOLEAN
    /\ vec = FixedSizeVec_new
    /\ vec_op = NoCall
    /\ memory_map = << >>
    /\ \E w \in 0..WORD_MAX : regions = <<Region(0, <<w>>)>>
    /\ last_allocation_region = 0
    /\ core = [t \in Cores |-> Idle(calls[t], "none", 0, NoRet)]
    /\ held = [t \in Cores |-> << >>]
    /\ init_lock = "Complete"
    /\ fill_calls = 1

InitChunk == ChunkAlone(EveryCore)
InitChunkSeq == ChunkAlone(OnlyCore1)

\* FrameAllocator::empty(), before initialize: core 1 boots.
InitBoot ==
    /\ debug_assertions \in BOOLEAN
    /\ vec = FixedSizeVec_new
    /\ vec_op = NoCall
    /\ memory_map \in BootMemoryMaps
    /\ regions = << >>
    /\ last_allocation_region = 0
    /\ core = [t \in Cores |->
                  [Idle(0, "none", 0, NoRet) EXCEPT !.pc = IF t = 1 THEN "boot" ELSE "idle"]]
    /\ held = [t \in Cores |-> << >>]
    /\ init_lock = "Incomplete"
    /\ fill_calls = 0

\* FrameAllocator::empty() in the static ALLOCATOR: no core has called
\* initialize yet, every core may call it.
InitGate ==
    /\ debug_assertions \in BOOLEAN
    /\ vec = FixedSizeVec_new
    /\ vec_op = NoCall
    /\ memory_map \in GateMemoryMaps
    /\ regions = << >>
    /\ last_allocation_region = 0
    /\ core = [t \in Cores |-> Idle(MaxCalls, "none", 0, NoRet)]
    /\ held = [t \in Cores |-> << >>]
    /\ init_lock = "Incomplete"
    /\ fill_calls = 0

\* allocator.fill(memory_map, _) on the empty allocator.  A panic leaves the
\* regions pushed so far.
Fill(t) ==
    /\ core[t].pc = "boot"
    /\ \E f \in fill(memory_map, debug_assertions) :
          /\ regions' = Regions(f.regions)
          /\ core' = [core EXCEPT ![t] =
                 IF f.status = "ok" THEN Idle(0, "fill", 0, RetUnit)
                 ELSE Halt(Idle(0, "fill", 0, NoRet))]
    /\ fill_calls' = fill_calls + 1
    /\ UNCHANGED <<init_lock, debug_assertions, vec, vec_op, memory_map, last_allocation_region, held>>

\* ------------------------------------------------------------------- Next
Next ==
    \E t \in Cores :
        \/ \E fc \in FrameCounts : allocate(t, fc)
        \/ frames_available(t)
        \/ allocate_single(t)
        \/ atomic_bit_test_set(t)
        \/ allocate_many(t)
        \/ compare_exchange(t)
        \/ fetch_add(t)
        \/ \E k \in HeldSlots : free(t, k)
        \/ fetch_sub(t)

ChunkNext ==
    \E t \in Cores :
        \/ call_allocate_single(t)
        \/ \E count \in ManyCounts : call_allocate_many(t, count)
        \/ atomic_bit_test_set(t)
        \/ compare_exchange(t)
        \/ \E k \in HeldSlots : call_free(t, k)

FreeNext ==
    \E t \in Cores :
        \/ \E fc \in FrameCounts : allocate(t, fc)
        \/ frames_available(t)
        \/ allocate_single(t)
        \/ atomic_bit_test_set(t)
        \/ allocate_many(t)
        \/ compare_exchange(t)
        \/ fetch_add(t)
        \/ \E address \in FreeAddresses : \E fc \in FrameCounts : free_address(t, address, fc)
        \/ fetch_sub(t)

ChunkFreeNext ==
    \E t \in Cores :
        \/ call_allocate_single(t)
        \/ \E count \in ManyCounts : call_allocate_many(t, count)
        \/ atomic_bit_test_set(t)
        \/ compare_exchange(t)
        \/ \E offset \in 0..(BITS - 1) : \E count \in ManyCounts : call_free_at(t, offset, count)

BootNext == \E t \in Cores : Fill(t)

GateNext ==
    \E t \in Cores :
        \/ initialize(t)
        \/ call_once(t)
        \/ FillEntry(t)
        \/ call_once_finish(t)

\* The cores call allocate and free of the filled allocator concurrently.
Spec == Init /\ [][Next]_vars
\* One core calls allocate and free of the filled allocator.
SpecSeq == InitSeq /\ [][Next]_vars
\* One core calls allocate and free on the scenario's region.
SpecFixture == InitFixture /\ [][Next]_vars
\* The cores call allocate_single, allocate_many and free of one chunk.
SpecChunk == InitChunk /\ [][ChunkNext]_vars
\* One core calls allocate_single, allocate_many and free of one chunk.
SpecChunkSeq == InitChunkSeq /\ [][ChunkNext]_vars
\* One core calls allocate, and free with any address and count.
SpecFree == InitFree /\ [][FreeNext]_vars
\* One core calls allocate_single and allocate_many of one chunk, and free
\* with any offset and count.
SpecChunkFree == InitChunkSeq /\ [][ChunkFreeNext]_vars
\* The allocator is filled from a memory map.
SpecBoot == InitBoot /\ [][BootNext]_vars
\* The cores call initialize concurrently.
SpecGate == InitGate /\ [][GateNext]_vars


\* ============================================================= properties
\* All allocations some core holds, each with its holder and position.
Outstanding == {<<t, k>> : t \in Cores, k \in HeldSlots} \cap
               UNION {{<<t, k>> : k \in 1..Len(held[t])} : t \in Cores}
Alloc(x) == held[x[1]][x[2]]

\* The Usable entry region number n was built from.
EntryOf(n) == SelectUsable(memory_map)[n]

\* Address of frame j of an allocation.
FrameAddress(a, j) == a.address + (j * FRAME_SIZE)

\* C1: no two allocate(1) calls have returned the same address while both
\* allocations are still held (neither was freed in between).
C1_NoAddressTwice ==
    \A x, y \in Outstanding :
        (x # y /\ Alloc(x).count = 1 /\ Alloc(y).count = 1)
            => Alloc(x).address # Alloc(y).address

\* C3: every frame of every range allocate has returned lies inside one of
\* the Usable entries of the memory map.
C3_InsideUsable ==
    \A x \in Outstanding : \A j \in 0..(Alloc(x).count - 1) :
        \E n \in 1..Len(SelectUsable(memory_map)) :
            /\ EntryOf(n).base <= FrameAddress(Alloc(x), j)
            /\ FrameAddress(Alloc(x), j) + FRAME_SIZE <= EntryOf(n).base + EntryOf(n).len

\* The bytes of region n that hold its own chunk array, and the padding
\* bytes between the end of its entry and the next multiple of ALIGNMENT.
InChunkArray(n, byte) ==
    /\ regions[n].base <= byte
    /\ byte < regions[n].base + (Len(regions[n].chunks) * SIZE_OF_CHUNK)
InPadding(n, byte) ==
    /\ EntryOf(n).base + EntryOf(n).len <= byte
    /\ byte < NextMultipleOf(EntryOf(n).base + EntryOf(n).len, ALIGNMENT)

\* C4: no range allocate has returned contains a permanently reserved
\* frame: a frame holding part of a region's chunk array, or a padding frame
\* behind the end of a region's entry.
C4_NoReservedFrame ==
    \A x \in Outstanding : \A j \in 0..(Alloc(x).count - 1) :
        \A n \in 1..Len(regions) :
            \A byte \in FrameAddress(Alloc(x), j)..(FrameAddress(Alloc(x), j) + FRAME_SIZE - 1) :
                ~InChunkArray(n, byte) /\ ~InPadding(n, byte)

\* C6: the address of every allocation is
\* base + chunk_index * (BITS * FRAME_SIZE) + offset * FRAME_SIZE for the
\* region, chunk and offset whose bits were set for it.
C6_AddressFormula ==
    \A x \in Outstanding :
        Alloc(x).count >= 1 =>
        Alloc(x).address = regions[Alloc(x).region_ix].base
                           + (Alloc(x).chunk_ix * (BITS * FRAME_SIZE))
                           + (Alloc(x).offset * FRAME_SIZE)


\* The bits the code was meant to reserve in region n at construction: the
\* first P frames, P the frames its chunk array was computed to take, and
\* the highest S bits of the last chunk, S the padding frames behind the
\* entry.  bit counts from 0 over the whole bitmap of the region.
PrefixFrames(n) == DivCeil(chunk_array_size(EntryOf(n).len), FRAME_SIZE)
SuffixFrames(n) ==
    (NextMultipleOf(EntryOf(n).base + EntryOf(n).len, ALIGNMENT)
        - (EntryOf(n).base + EntryOf(n).len)) \div FRAME_SIZE
IsPrefixBit(n, bit) == bit < PrefixFrames(n)
IsSuffixBit(n, bit) == bit >= frame_count(regions[n]) - SuffixFrames(n)
BitOfRegion(n, bit) == Bit(regions[n].chunks[(bit \div BITS) + 1], bit % BITS)

FillReturned == core[1].op = "fill" /\ core[1].ret = RetUnit

\* C5: in every region fill has constructed, the set bits are exactly the
\* first P bits and the highest S bits of the last chunk, and those two
\* sets do not overlap.
C5_InitialBitmap ==
    FillReturned =>
        \A n \in 1..Len(regions) : \A bit \in 0..(frame_count(regions[n]) - 1) :
            /\ (BitOfRegion(n, bit) = 1) <=> (IsPrefixBit(n, bit) \/ IsSuffixBit(n, bit))
            /\ ~(IsPrefixBit(n, bit) /\ IsSuffixBit(n, bit))

\* The call a core has made as its n-th of SeqCalls calls is over.
Finished(t, n) == core[t].calls = SeqCalls - n /\ core[t].pc \in {"idle", "panicked"}

\* C7: on the region of 2 * BITS frames with nothing reserved or allocated,
\* the first allocate(BITS) returns the region base, a second allocate(BITS)
\* returns base + BITS * FRAME_SIZE, and an allocate(1) after the two
\* returns None.
C7_Scenario ==
    \A t \in Cores :
        /\ (Finished(t, 1) /\ core[t].op = "allocate" /\ core[t].frame_count = BITS)
              => core[t].ret = RetSome(regions[1].base)
        /\ (/\ Finished(t, 2) /\ core[t].op = "allocate" /\ core[t].frame_count = BITS
            /\ Len(held[t]) >= 1 /\ held[t][1].count = BITS)
              => core[t].ret = RetSome(regions[1].base + (BITS * FRAME_SIZE))
        /\ (/\ Finished(t, 3) /\ core[t].op = "allocate" /\ core[t].frame_count = 1
            /\ Len(held[t]) >= 2 /\ held[t][1].count = BITS /\ held[t][2].count = BITS)
              => core[t].ret = RetNone

\* The step in which core t calls allocate with a frame_count above BITS.
CallsAllocateAboveBits(t) ==
    /\ core[t].pc = "idle"
    /\ core'[t].calls = core[t].calls - 1
    /\ core'[t].op = "allocate"
    /\ core'[t].frame_count > BITS

\* C8: allocate(count) with count > BITS returns None, whatever the state,
\* and changes no bitmap word and no frames_used.
C8_AboveBitsRefused ==
    [][\A t \in Cores :
          CallsAllocateAboveBits(t) =>
              /\ core'[t].pc = "idle"
              /\ core'[t].ret = RetNone
              /\ regions' = regions]_vars

ClearBits(region) ==
    frame_count(region)
        - (LET RECURSIVE Sum(_)
               Sum(k) == IF k = 0 THEN 0 ELSE Sum(k - 1) + PopCount(region.chunks[k])
           IN  Sum(Len(region.chunks)))

\* an allocate(count > BITS) has returned None although a region has nothing
\* allocated and MIN_FRAMES_REQUIRED or more clear bits
C8_Witness ==
    \E t \in Cores :
        /\ core[t].op = "allocate"
        /\ core[t].frame_count > BITS
        /\ core[t].pc = "idle"
        /\ core[t].ret = RetNone
        /\ \E n \in 1..Len(regions) :
               /\ regions[n].frames_used = 0
               /\ ClearBits(regions[n]) >= MIN_FRAMES_REQUIRED

\* C9: with one caller, an allocate(count >= 1) is never served by a region
\* that had fewer than MIN_FRAMES_REQUIRED clear bits when the call began.
\* (At the fetch_add the count bits of the call are set and nothing else
\* has changed.)
C9_HeadroomRefuses ==
    \A t \in Cores :
        (core[t].pc = "fetch_add" /\ core[t].frame_count >= 1)
            => ClearBits(regions[core[t].region_ix]) + core[t].frame_count
                   >= MIN_FRAMES_REQUIRED


\* The bit positions of an allocation from a chunk.
BitsOf(a) == a.offset..(a.offset + a.count - 1)

\* C2: on one chunk, the bit ranges of the allocations the callers hold are
\* pairwise disjoint, and every bit of each of them is 1 in the word.
C2_ChunkExclusive ==
    /\ \A x \in Outstanding : \A b \in BitsOf(Alloc(x)) :
           b < BITS /\ Bit(Word(regions, 1, 0), b) = 1
    /\ \A x, y \in Outstanding : x # y => BitsOf(Alloc(x)) \cap BitsOf(Alloc(y)) = {}

\* two cores hold allocations of the chunk at once, one of them of several
\* frames got from a compare_exchange that had failed once before
C2_Witness ==
    \E t, u \in Cores :
        /\ t # u
        /\ \E k \in 1..Len(held[t]) : held[t][k].count >= 2
        /\ \E k \in 1..Len(held[u]) : held[u][k].count = 1
        /\ \E v \in Cores : core[v].pc = "compare_exchange" /\ core[v].tries = 1

\* The step in which core t frees the allocation it got from the call it
\* has just returned from.
FreesLastAllocation(t) ==
    /\ core[t].pc = "idle"
    /\ core[t].op \in {"allocate_single", "allocate_many"}
    /\ core[t].ret.kind = "Some"
    /\ core'[t].op = "free"
    /\ core'[t].calls = core[t].calls - 1
    /\ held[t] # << >>
    /\ held'[t] = SubSeq(held[t], 1, Len(held[t]) - 1)

\* C10: with one caller, free(offset, count) right after the allocate_single
\* or allocate_many that returned (offset, count) leaves the word as it was
\* before that allocation.
C10_FreeRestores ==
    [][\A t \in Cores :
          FreesLastAllocation(t) =>
              /\ core'[t].pc = "idle"
              /\ Word(regions', 1, 0) = held[t][Len(held[t])].before]_vars

\* an allocate_many of two or more frames on a word with bits set, freed
\* again by the next call
C10_Witness ==
    \E t \in Cores :
        /\ core[t].op = "free"
        /\ core[t].pc = "idle"
        /\ core[t].frame_count >= 2
        /\ core[t].calls = SeqCalls - 2
        /\ Word(regions, 1, 0) \notin {0, WORD_MAX}

\* The offsets o at which bits o..o+count-1 of the word w are all clear.
ClearRuns(w, count) ==
    {o \in 0..(BITS - count) : \A b \in o..(o + count - 1) : Bit(w, b) = 0}

\* C11: with one caller, allocate_many(count) for 2 <= count < BITS returns
\* the lowest offset at which count consecutive bits of the word were clear
\* and sets exactly those bits; it returns None only when the word has no
\* run of count clear bits.
C11_LowestRun ==
    \A t \in Cores :
        (/\ core[t].pc = "idle" /\ core[t].op = "allocate_many"
         /\ core[t].frame_count >= 2 /\ core[t].frame_count < BITS)
        => IF core[t].ret = RetNone
           THEN ClearRuns(Word(regions, 1, 0), core[t].frame_count) = {}
           ELSE LET a == held[t][Len(held[t])]
                IN  /\ core[t].ret = RetSome(a.offset)
                    /\ ClearRuns(a.before, a.count) # {}
                    /\ a.offset = SetMin(ClearRuns(a.before, a.count))
                    /\ Word(regions, 1, 0)
                           = a.before + (((2 ^ a.count) - 1) * (2 ^ a.offset))

\* Some region owns the address.
Owned(address) == \E n \in 1..Len(regions) : check_if_owned(regions[n], address)

\* The step in which core t calls free with an address no region owns.
CallsFreeUnowned(t) ==
    /\ core[t].pc = "idle"
    /\ core'[t].op = "free"
    /\ core'[t].calls = core[t].calls - 1
    /\ ~Owned(core'[t].address)

\* C12: free(address, count) with an address in no region's [base, end)
\* panics and leaves every chunk word and every frames_used as it was.
C12_UnownedFreePanics ==
    [][\A t \in Cores :
          CallsFreeUnowned(t) =>
              /\ core'[t].pc = "panicked"
              /\ regions' = regions]_vars

\* a free of an address in the gap between two regions has panicked
C12_Witness ==
    \E t \in Cores :
        /\ core[t].pc = "panicked"
        /\ core[t].op = "free"
        /\ Len(regions) = 2
        /\ end(regions[1]) <= core[t].address
        /\ core[t].address < regions[2].base

\* The bits free(offset, count) is aimed at.
Targeted(offset, count) == {b \in offset..(offset + count - 1) : b < BITS}

\* The step in which core t calls free(offset, count) on the chunk while
\* some targeted bit is 0: the frame is free already.
CallsDoubleFree(t) ==
    /\ core[t].pc = "idle"
    /\ core'[t].op = "free"
    /\ core'[t].calls = core[t].calls - 1
    /\ \E b \in Targeted(core'[t].bit, core'[t].frame_count) : Bit(Word(regions, 1, 0), b) = 0

\* C13: a free(offset, count) whose targeted bits are not all 1 panics; it
\* never returns normally having turned a free frame into a used one.
C13_DoubleFreeAborts ==
    [][\A t \in Cores :
          CallsDoubleFree(t) =>
              /\ core'[t].pc = "panicked"
              /\ ~\E b \in 0..(BITS - 1) :
                     /\ core'[t].pc = "idle"
                     /\ Bit(Word(regions, 1, 0), b) = 0
                     /\ Bit(Word(regions', 1, 0), b) = 1]_vars

\* C14: no call of FrameAllocator::allocate panics, whatever its
\* frame_count and whatever the bitmaps hold.
C14_AllocateNeverAborts ==
    \A t \in Cores : ~(core[t].pc = "panicked" /\ core[t].op = "allocate")

\* C15: however the cores' calls of initialize interleave, fill is called on
\* the global allocator at most once.
C15_FillAtMostOnce == fill_calls <= 1

\* one core runs fill while another core, inside call_once too, waits
C15_Witness ==
    \E t, u \in Cores :
        /\ core[t].pc = "fill"
        /\ core[u].pc = "call_once"
        /\ fill_calls = 1
        /\ regions # << >>

\* A call of initialize has returned the token to core t.
HoldsToken(t) == core[t].op = "initialize" /\ core[t].ret = RetToken

\* What fill builds from the memory map when it returns.
FinalRegions ==
    {Regions(f.regions) : f \in {g \in fill(memory_map, debug_assertions) : g.status = "ok"}}

\* C16: whenever a core holds a token, the Once is Complete and the region
\* list has its final contents.
C16_TokenAfterConstruction ==
    \A t \in Cores :
        HoldsToken(t) => (init_lock = "Complete" /\ regions \in FinalRegions)

\* a core holds the token of a full region list while another core is
\* still inside call_once
C16_Witness ==
    \E t, u \in Cores :
        /\ HoldsToken(t)
        /\ core[u].pc = "call_once"
        /\ Len(regions) = MAX_MEMORY_REGION_COUNT

\* C17: at most one call of initialize ever returns a token; every other
\* call panics.
C17_OnlyFirstReturns == Cardinality({t \in Cores : HoldsToken(t)}) <= 1

\* MemoryRegion::new accepts the entry; the region is what it builds from it.
Constructible(e) ==
    \A r \in MemoryRegion_new(e.base, e.len, debug_assertions) : r.status = "ok"
BuiltFrom(region, e) ==
    \E r \in MemoryRegion_new(e.base, e.len, debug_assertions) :
        r.status = "ok" /\ region = Region(r.base, r.chunks)

BadArgs(e) == e.base % FRAME_SIZE # 0 \/ e.len % FRAME_SIZE # 0 \/ ~(e.len > FRAME_SIZE)

\* The step in which core t, inside fill, calls MemoryRegion::new with
\* arguments it must refuse.
CallsNewWithBadArgs(t) ==
    /\ core[t].pc = "fill"
    /\ core'[t] # core[t]
    /\ core[t].i < Len(SelectUsable(memory_map))
    /\ BadArgs(SelectUsable(memory_map)[core[t].i + 1])

\* C19: MemoryRegion::new panics, having written nothing to memory, when
\* base or size is not a multiple of FRAME_SIZE or size is not greater than
\* FRAME_SIZE.
C19_BadArgsAbort ==
    [][\A t \in Cores :
          CallsNewWithBadArgs(t) =>
              LET e == SelectUsable(memory_map)[core[t].i + 1]
              IN  /\ core'[t].pc = "panicked"
                  /\ regions' = regions
                  /\ \A r \in MemoryRegion_new(e.base, e.len, debug_assertions) :
                         r.status = "panic" /\ r.written = 0]_vars

\* fill has panicked in MemoryRegion::new on a second entry of one frame,
\* after a region was pushed
C19_Witness ==
    \E t \in Cores :
        /\ core[t].pc = "panicked"
        /\ core[t].op = "fill"
        /\ core[t].i = 1
        /\ Len(regions) = 1
        /\ BadArgs(SelectUsable(memory_map)[2])

\* The first region, in list order, that owns the address; 0 if none does.
LinearScan(address) ==
    IF Owned(address)
    THEN SetMin({n \in 1..Len(regions) : check_if_owned(regions[n], address)})
    ELSE 0

\* The region free delegates to for the address; 0 where it panics.
Searched(address) == BinarySearch(regions, address, 0, Len(regions))

\* the search of free finds, for every allocation held, the region that
\* made the allocation
HeldFoundByOwner ==
    \A x \in Outstanding :
        Alloc(x).count >= 1 => Searched(Alloc(x).address) = Alloc(x).region_ix

\* the search of free agrees with a linear scan with check_if_owned
SearchIsLinearScan == \A address \in FreeAddresses : Searched(address) = LinearScan(address)

\* C20: for every address allocate returned and not yet freed, free finds
\* the region that made the allocation; for every address, the binary
\* search selects the region a linear scan with check_if_owned selects and
\* finds none exactly when the scan finds none.
C20_SearchFindsOwner == HeldFoundByOwner /\ SearchIsLinearScan

\* C21: the regions fill has built from a map sorted by base with disjoint
\* Usable entries are in strictly ascending order of base, and the ranges
\* [base, end()) of two regions never share an address.
C21_OrderedDisjoint ==
    \A n, m \in 1..Len(regions) :
        n < m => /\ regions[n].base < regions[m].base
                 /\ end(regions[n]) <= regions[m].base

\* -------------------------------------- calls on one MemoryRegion itself
\* The region is region 1 of a list of one region.
\* MemoryRegion::allocate(frame_count), up to its first shared access.
region_allocate(t, fc) ==
    LET c == core[t]
        called == Idle(c.calls - 1, "allocate", fc, NoRet)
    IN  /\ c.pc = "idle"
        /\ c.calls > 0
        /\ Len(regions) = 1
        /\ core' = [core EXCEPT ![t] =
               IF TooManyFrames(fc) THEN Return(called, RetNone)
               ELSE [called EXCEPT !.pc = "frames_available", !.region_ix = 1]]
        /\ UNCHANGED <<init_lock, fill_calls, debug_assertions, vec, vec_op, memory_map, regions,
                       last_allocation_region, held>>

\* MemoryRegion::free(address, frame_count) of the k-th allocation the core
\* holds, up to and including the fetch_xor.
region_free(t, k) ==
    LET c == core[t]
        a == held[t][k]
        called == [Idle(c.calls - 1, "free", a.count, NoRet) EXCEPT !.address = a.address]
        plan == MemoryRegion_free(regions[1], a.address, a.count, debug_assertions)
    IN  /\ c.pc = "idle"
        /\ c.calls > 0
        /\ Len(regions) = 1
        /\ k <= Len(held[t])
        /\ held' = [held EXCEPT ![t] = SubSeq(@, 1, k - 1) \o SubSeq(@, k + 1, Len(@))]
        /\ IF plan.early_panic THEN
               /\ core' = [core EXCEPT ![t] = [Halt(called) EXCEPT !.address = a.address]]
               /\ regions' = regions
           ELSE
               /\ regions' = SetWord(regions, 1, plan.chunk_ix, plan.word)
               /\ core' = [core EXCEPT ![t] =
                      IF plan.late_panic THEN [Halt(called) EXCEPT !.address = a.address]
                      ELSE [called EXCEPT !.pc = "fetch_sub", !.region_ix = 1]]
        /\ UNCHANGED <<init_lock, fill_calls, debug_assertions, vec, vec_op, memory_map, last_allocation_region>>

\* The maps of one Usable entry.
RegionMemoryMaps == {m \in SeqMemoryMaps : Len(SelectUsable(m)) = 1}

InitRegion == Filled(RegionMemoryMaps, OnlyCore1)

RegionNext ==
    \E t \in Cores :
        \/ \E fc \in FrameCounts : region_allocate(t, fc)
        \/ frames_available(t)
        \/ allocate_single(t)
        \/ atomic_bit_test_set(t)
        \/ allocate_many(t)
        \/ compare_exchange(t)
        \/ fetch_add(t)
        \/ \E k \in HeldSlots : region_free(t, k)
        \/ fetch_sub(t)

\* One core calls allocate and free of one region.
SpecRegion == InitRegion /\ [][RegionNext]_vars

\* The step in which core t calls MemoryRegion::free with the address and
\* the count of the allocation its last call has just returned.
RegionFreesLastAllocation(t) ==
    /\ core[t].pc = "idle"
    /\ core[t].op = "allocate"
    /\ core[t].ret.kind = "Some"
    /\ core'[t].op = "free"
    /\ core'[t].calls = core[t].calls - 1
    /\ held[t] # << >>
    /\ held'[t] = SubSeq(held[t], 1, Len(held[t]) - 1)

\* C22: MemoryRegion::free(a, count) right after the MemoryRegion::allocate
\* (count) that returned a does not abort, clears in the chunk words exactly
\* the bits the allocation had set, and then takes count off frames_used.
C22_FreeUndoesAllocate ==
    [][\A t \in Cores :
          /\ RegionFreesLastAllocation(t) =>
                LET a == held[t][Len(held[t])]
                    mask == ShiftedMask(a.count, a.offset)
                IN  /\ core'[t].pc = "fetch_sub"
                    /\ regions'[1].chunks =
                           [regions[1].chunks EXCEPT ![a.chunk_ix + 1] = @ - mask]
          /\ (core[t].pc = "fetch_sub" /\ core'[t].pc = "idle") =>
                regions'[1].frames_used = regions[1].frames_used - core[t].frame_count]_vars

\* The frame of region n that holds the address, counted from the base.
FrameOf(n, address) == (address - regions[n].base) \div FRAME_SIZE

\* The step in which core t calls free(address, count) and the search hands
\* the call to MemoryRegion::free of a region with base <= address < end;
\* the address is frame aligned and the count frames from it are frames of
\* one chunk, all marked used.
CallsFreeOwned(t, n) ==
    /\ core[t].pc = "idle"
    /\ core'[t].op = "free"
    /\ core'[t].calls = core[t].calls - 1
    /\ Searched(core'[t].address) = n
    /\ check_if_owned(regions[n], core'[t].address)
    /\ core'[t].address % FRAME_SIZE = 0
    /\ core'[t].frame_count \in 1..(BITS - 1)
    /\ (FrameOf(n, core'[t].address) % BITS) + core'[t].frame_count <= BITS
    /\ \A j \in 0..(core'[t].frame_count - 1) :
          BitOfRegion(n, FrameOf(n, core'[t].address) + j) = 1

\* C23: MemoryRegion::free(address, count) with base <= address < end clears
\* exactly the bits of the frames [address, address + count * FRAME_SIZE):
\* bits frame % BITS onwards of chunk frame / BITS, where frame is
\* (address - base) / FRAME_SIZE, whatever the frame-aligned base.
C23_FreeClearsItsFrames ==
    [][\A t \in Cores : \A n \in 1..Len(regions) :
          CallsFreeOwned(t, n) =>
              LET frame == FrameOf(n, core'[t].address)
                  mask == ShiftedMask(core'[t].frame_count, frame % BITS)
              IN  /\ core'[t].pc = "fetch_sub"
                  /\ regions'[n].chunks =
                         [regions[n].chunks EXCEPT ![(frame \div BITS) + 1] = @ - mask]]_vars

\* ---------------------------------------- many cores on one MemoryRegion
\* Twice the cores, for the interleavings of one free with several
\* allocations.
RaceCores == 1..(2 * NumCores)

\* One region of two chunks with one frame reserved at each end.
RaceMemoryMaps == {<<Entry(0, ALIGNMENT + ((BITS - 1) * FRAME_SIZE), "Usable")>>}

\* Core 1 makes MaxCalls calls, every other core one call less.  The build
\* is the unchecked one, whose arithmetic wraps instead of panicking.
InitRace ==
    /\ debug_assertions = FALSE
    /\ vec = FixedSizeVec_new
    /\ vec_op = NoCall
    /\ memory_map \in RaceMemoryMaps
    /\ \E f \in fill(memory_map, debug_assertions) :
          /\ f.status = "ok"
          /\ regions = Regions(f.regions)
    /\ last_allocation_region = 0
    /\ core = [t \in RaceCores |->
                  Idle(IF t = 1 THEN MaxCalls ELSE MaxCalls - 1, "none", 0, NoRet)]
    /\ held = [t \in RaceCores |-> << >>]
    /\ init_lock = "Complete"
    /\ fill_calls = 1

RaceNext ==
    \E t \in RaceCores :
        \/ \E fc \in 1..(BITS - 1) : region_allocate(t, fc)
        \/ frames_available(t)
        \/ allocate_single(t)
        \/ atomic_bit_test_set(t)
        \/ allocate_many(t)
        \/ compare_exchange(t)
        \/ fetch_add(t)
        \/ \E k \in HeldSlots : region_free(t, k)
        \/ fetch_sub(t)

\* Several cores call allocate and free of one region concurrently; every
\* free is of an allocation the core holds.
SpecRace == InitRace /\ [][RaceNext]_vars

\* C24: while every free releases an allocation that was returned and not
\* yet freed, frames_used of a region never exceeds its frame_count, so the
\* subtraction in frames_available never underflows.
C24_UsedWithinCount ==
    \A n \in 1..Len(regions) : regions[n].frames_used <= frame_count(regions[n])

\* The frames of the allocations in h that region n made.
RECURSIVE FramesIn(_, _)
FramesIn(h, n) ==
    IF h = << >> THEN 0
    ELSE (IF Head(h).region_ix = n THEN Head(h).count ELSE 0) + FramesIn(Tail(h), n)

\* The frames of the outstanding allocations of region n that cores 1..t hold.
RECURSIVE OutstandingFrames(_, _)
OutstandingFrames(t, n) ==
    IF t = 0 THEN 0 ELSE FramesIn(held[t], n) + OutstandingFrames(t - 1, n)

\* The number of bits set in the first k chunk words, and in all of them.
RECURSIVE SetBitsUpTo(_, _)
SetBitsUpTo(chunks, k) ==
    IF k = 0 THEN 0 ELSE PopCount(chunks[k]) + SetBitsUpTo(chunks, k - 1)

SetBits(chunks) == SetBitsUpTo(chunks, Len(chunks))

\* No call is under way and none has aborted.
Quiescent == \A t \in Cores : core[t].pc = "idle"

\* C25: in a quiescent state reached by allocations and frees of those
\* allocations, frames_used of every region is the number of frames of its
\* outstanding allocations, and that is the number of bits set in its
\* chunks less the bits that were set when it was built.
C25_UsedIsOutstanding ==
    Quiescent =>
        \E built \in FinalRegions :
            \A n \in 1..Len(regions) :
                /\ regions[n].frames_used = OutstandingFrames(NumCores, n)
                /\ regions[n].frames_used =
                       SetBits(regions[n].chunks) - SetBits(built[n].chunks)

\* C26: MemoryRegion::new runs to its end, without a failed assertion and
\* without an arithmetic overflow, on every frame-aligned base and every
\* frame-aligned size above FRAME_SIZE, sizes below one chunk span and
\* whole multiples of a chunk span among them: fill never aborts on the
\* entries of such a map.
C26_NewCompletes ==
    \A t \in Cores : ~(core[t].pc = "panicked" /\ core[t].op = "fill")

\* C27: a region built from an entry of `len` bytes has exactly
\* len / (BITS * FRAME_SIZE) chunks, and the frames it tracks do not reach
\* past len rounded up to a multiple of BITS * FRAME_SIZE.
C27_ChunkCount ==
    FillReturned =>
        \A n \in 1..Len(regions) :
            /\ Len(regions[n].chunks) = EntryOf(n).len \div ALIGNMENT
            /\ len(regions[n]) <= NextMultipleOf(EntryOf(n).len, ALIGNMENT)

\* Core t is inside MemoryRegion::allocate of the region it is probing.
Probing(c) == c.op = "allocate" /\ c.pc \notin {"idle", "panicked"}

\* The step in which core t calls FrameAllocator::allocate.
CallsAllocate(t) ==
    /\ core[t].pc = "idle"
    /\ core'[t].op = "allocate"
    /\ core'[t].calls = core[t].calls - 1

\* C28: a call of FrameAllocator::allocate adds exactly one to the cursor,
\* and nothing else changes the cursor; the i-th region it probes is region
\* ((fetched cursor mod R) + i) mod R, with i going up from 0 one by one;
\* the first Some a region returns is returned at once, and None is
\* returned only when the last of the R regions has refused.
C28_CyclicProbe ==
    [][\A t \in Cores :
          LET R == Len(regions)
              c == core[t]
              d == core'[t]
          IN  /\ CallsAllocate(t) =>
                    /\ last_allocation_region' = (last_allocation_region + 1) % (2 ^ USIZE_BITS)
                    /\ Probing(d) => d.i = 0 /\ d.start_region_id = last_allocation_region
              /\ (\A u \in Cores : ~CallsAllocate(u)) =>
                    last_allocation_region' = last_allocation_region
              /\ Probing(d) =>
                    /\ d.i < R
                    /\ d.region_ix = (((d.start_region_id % R) + d.i) % R) + 1
              /\ (Probing(c) /\ Probing(d)) =>
                    /\ d.start_region_id = c.start_region_id
                    /\ d.i \in {c.i, c.i + 1}
              /\ (Probing(c) /\ d.pc = "idle" /\ d.ret.kind = "Some") =>
                    /\ c.pc = "fetch_add"
                    /\ d.ret = RetSome(c.address)
              /\ (c # d /\ d.op = "allocate" /\ d.ret = RetNone) =>
                    \/ Probing(c) /\ c.i = R - 1
                    \/ CallsAllocate(t) /\ (R = 0 \/ TooManyFrames(d.frame_count))]_vars

\* a call that began at the second of two regions, was refused there and
\* has wrapped around to the first
C28_Witness ==
    \E t \in Cores :
        /\ Probing(core[t])
        /\ Len(regions) = 2
        /\ core[t].start_region_id = 1
        /\ core[t].i = 1
        /\ core[t].region_ix = 1

\* ------------------------------------------- the cursor near usize::MAX
\* The allocator after so many calls of allocate that the cursor is at the
\* top of the range of usize, or at 0.
InitCursor ==
    /\ debug_assertions \in BOOLEAN
    /\ vec = FixedSizeVec_new
    /\ vec_op = NoCall
    /\ memory_map \in MemoryMaps
    /\ \E f \in fill(memory_map, debug_assertions) :
          /\ f.status = "ok"
          /\ regions = Regions(f.regions)
    /\ last_allocation_region \in {0, USIZE_MAX - 1, USIZE_MAX}
    /\ core = [t \in Cores |-> Idle(OnlyCore1[t], "none", 0, NoRet)]
    /\ held = [t \in Cores |-> << >>]
    /\ init_lock = "Complete"
    /\ fill_calls = 1

\* One core calls allocate and free, the cursor anywhere in its range.
SpecCursor == InitCursor /\ [][Next]_vars

\* C29: whatever the value of the cursor, also where start_region_id + i
\* passes usize::MAX, a call of allocate does not abort on the index
\* arithmetic (a call every region refuses outright returns None), and
\* iteration i probes region ((cursor mod R) + i) mod R, so that the R
\* iterations probe each region once.
C29_WrapHarmless ==
    \A t \in Cores :
        LET R == Len(regions)
            c == core[t]
        IN  /\ (c.op = "allocate" /\ TooManyFrames(c.frame_count)) => c.pc # "panicked"
            /\ Probing(c) =>
                  /\ c.i < R
                  /\ c.region_ix = (((c.start_region_id % R) + c.i) % R) + 1

\* No core but t has called the chunk yet.
Alone(t) == \A u \in Cores \ {t} : core[u].op = "none"

\* C30: allocate_single returns a bit only from a test-and-set that found
\* the bit clear, and that test-and-set sets this bit and no other; a
\* test-and-set that finds its bit set changes nothing; the call returns
\* None at its load exactly when the word is all ones.  While no other core
\* touches the word, the bit returned is the lowest clear bit and None is
\* returned only at the load.
C30_LowestClearBit ==
    [][\A t \in Cores :
          LET c == core[t]
              d == core'[t]
              w == Word(regions, 1, 0)
          IN  (c # d /\ d.op = "allocate_single") =>
                  /\ c.pc = "idle" =>
                        /\ Word(regions', 1, 0) = w
                        /\ (d.ret = RetNone) <=> (w = WORD_MAX)
                        /\ d.ret.kind # "Some"
                  /\ c.pc = "bts" =>
                        IF Bit(w, c.bit) = 0
                        THEN /\ d.ret = RetSome(c.bit)
                             /\ Word(regions', 1, 0) = w + (2 ^ c.bit)
                        ELSE /\ d.ret.kind # "Some"
                             /\ Word(regions', 1, 0) = w
                  /\ (d.ret.kind = "Some" /\ Alone(t)) =>
                        \A b \in 0..(d.ret.value - 1) : Bit(w, b) = 1
                  /\ (d.ret = RetNone /\ Alone(t)) => c.pc = "idle"]_vars

\* allocate_single has returned a bit above bit 0 while another core is in
\* the middle of a call on the same word
C30_Witness ==
    \E t, u \in Cores :
        /\ t # u
        /\ core[t].op = "allocate_single"
        /\ core[t].pc = "idle"
        /\ core[t].ret.kind = "Some"
        /\ core[t].ret.value >= 1
        /\ core[u].pc \in {"bts", "compare_exchange"}

\* The place of a compare_exchange in the order of the attempts of one
\* allocate_many call: two places for every window offset.
AttemptRank(c) == (2 * c.shift) + c.tries

\* C31: every compare_exchange of allocate_many(count) is the first or the
\* second attempt at a window offset below BITS - count, and the attempt
\* that follows it in the same call on the same chunk is later in the order
\* of attempts, whatever other cores did to the word in between: the call
\* makes at most 2 * (BITS - count) attempts.  A core inside allocate or
\* free can always take its next step, whatever the other cores do.
C31_BoundedAttempts ==
    [][\A t \in Cores :
          LET c == core[t]
              d == core'[t]
          IN  /\ (c.pc = "compare_exchange" /\ c # d) =>
                    /\ c.tries < 2
                    /\ c.shift < BITS - c.frame_count
                    /\ AttemptRank(c) < 2 * (BITS - c.frame_count)
                    /\ (d.pc = "compare_exchange" /\ d.chunk_ix = c.chunk_ix
                            /\ d.region_ix = c.region_ix) =>
                          AttemptRank(d) > AttemptRank(c)
              /\ d.pc \notin {"idle", "panicked"} =>
                    (ENABLED (\/ frames_available(t) \/ allocate_single(t)
                              \/ atomic_bit_test_set(t) \/ allocate_many(t)
                              \/ compare_exchange(t) \/ fetch_add(t) \/ fetch_sub(t)))']_vars

\* a second attempt at a window offset above 0, after another core changed
\* the word under the first
C31_Witness ==
    \E t \in Cores :
        /\ core[t].pc = "compare_exchange"
        /\ core[t].tries = 1
        /\ core[t].shift >= 1

\* C32: a step of a core inside allocate changes a chunk word or a
\* frames_used only when the chunk has returned Some to it, and from there
\* the call returns Some; the step in which a call returns None changes
\* neither: a call that returns None has changed no word and no frames_used.
C32_NoneChangesNothing ==
    [][\A t \in Cores :
          LET c == core[t]
              d == core'[t]
          IN  (c # d /\ d.op = "allocate") =>
                  /\ regions' # regions => (d.pc = "fetch_add" \/ d.ret.kind = "Some")
                  /\ c.pc = "fetch_add" => d.ret.kind = "Some"
                  /\ d.ret = RetNone => (regions' = regions /\ held' = held)]_vars

\* allocate of 1..BITS-1 frames has returned None after it went through the
\* chunks of a region while another core holds frames of that region
C32_Witness ==
    \E t, u \in Cores :
        /\ t # u
        /\ core[t].op = "allocate"
        /\ core[t].pc = "idle"
        /\ core[t].ret = RetNone
        /\ core[t].frame_count \in 1..(BITS - 1)
        /\ held[u] # << >>
        /\ \E n \in 1..Len(regions) : regions[n].frames_used > 0

\* C33: with one caller, the chunk MemoryRegion::allocate(count) takes its
\* frames from is the lowest chunk that has count clear bits in a row, no
\* other chunk word changes, and frames_used grows by exactly count.
C33_FirstFitOverChunks ==
    [][\A t \in Cores :
          LET c == core[t]
              d == core'[t]
          IN  /\ (c # d /\ c.op = "allocate" /\ c.pc # "fetch_add" /\ d.pc = "fetch_add") =>
                    /\ \A j \in 0..(c.chunk_ix - 1) :
                          ClearRuns(Word(regions, 1, j), c.frame_count) = {}
                    /\ \A j \in 0..(Len(regions[1].chunks) - 1) :
                          j # c.chunk_ix => Word(regions', 1, j) = Word(regions, 1, j)
              /\ (c.pc = "fetch_add" /\ c # d) =>
                    /\ regions'[1].frames_used = regions[1].frames_used + c.frame_count
                    /\ regions'[1].chunks = regions[1].chunks]_vars

\* The word with exactly the bits offset..offset+count-1 set.
RECURSIVE RunMask(_, _)
RunMask(offset, count) ==
    IF count = 0 THEN 0 ELSE (2 ^ (offset + count - 1)) + RunMask(offset, count - 1)

\* C34: chunk free(offset, count) with offset + count <= BITS, count up to
\* BITS itself, toggles exactly the bits offset..offset+count-1 of the
\* word; free(0, BITS) on the all-ones word returns and leaves the word 0.
C34_FreeWholeWord ==
    [][\A t \in Cores :
          LET c == core[t]
              d == core'[t]
              w == Word(regions, 1, 0)
          IN  (/\ c.pc = "idle" /\ d.op = "free" /\ d.calls = c.calls - 1
               /\ d.bit + d.frame_count <= BITS) =>
                  /\ Word(regions', 1, 0) = BitXor(w, RunMask(d.bit, d.frame_count))
                  /\ (w = WORD_MAX /\ d.bit = 0 /\ d.frame_count = BITS) =>
                        (d.pc = "idle" /\ Word(regions', 1, 0) = 0)]_vars

\* C35: no step of an allocate or a free changes the number of regions,
\* the base of a region or the number of its chunks.
C35_RegionListFixed ==
    [][/\ Len(regions') = Len(regions)
       /\ \A n \in 1..Len(regions) :
             /\ regions'[n].base = regions[n].base
             /\ Len(regions'[n].chunks) = Len(regions[n].chunks)]_vars

\* a free has returned while another core holds an allocation, after at
\* least two calls of allocate
C35_Witness ==
    \E t, u \in Cores :
        /\ t # u
        /\ core[t].op = "free"
        /\ core[t].pc = "idle"
        /\ core[t].ret = RetUnit
        /\ held[u] # << >>
        /\ last_allocation_region >= 2
        /\ regions \notin FinalRegions

\* -------------------------------------------------------- MemoryMap::new
\* The longest entry list handed to MemoryMap::new.
MaxEntries == 3

\* entries.is_sorted_by_key(|x| x.base)
IsSortedByBase(entries) ==
    \A i \in 1..(Len(entries) - 1) : entries[i].base <= entries[i + 1].base

\* .filter(|x| x.kind == Usable).tuple_windows(): the pairs of neighbours
\* among the Usable entries.
UsableWindows(entries) ==
    LET usable == SelectUsable(entries)
    IN  {<<usable[i], usable[i + 1]>> : i \in 1..(Len(usable) - 1)}

\* prev.base + prev.len overflows usize: a panic of the checked build.
EndOverflows(entries) ==
    \E w \in UsableWindows(entries) : w[1].base + w[1].len > USIZE_MAX

\* arch::boot::MemoryMap::new: "ok" when it returns the map, "panic" when
\* an assertion or an overflow check aborts it.
MemoryMap_new(entries, dbg) ==
    IF Len(entries) = 0 THEN "panic"                    \* assert_arg!
    ELSE IF dbg /\ ~IsSortedByBase(entries) THEN "panic"
    ELSE IF dbg /\ EndOverflows(entries) THEN "panic"
    ELSE IF dbg /\ ~(\A w \in UsableWindows(entries) : w[1].base + w[1].len <= w[2].base)
         THEN "panic"
    ELSE "ok"

\* boot::MemoryMap::new, the copy in src/boot/mod.rs: every assertion is
\* a debug assertion, and the one on the Usable entries asks for a pair
\* with prev.base + prev.len > next.base.
boot_MemoryMap_new(entries, dbg) ==
    IF dbg /\ ~(Len(entries) > 0) THEN "panic"
    ELSE IF dbg /\ ~IsSortedByBase(entries) THEN "panic"
    ELSE IF ~dbg THEN "ok"
    ELSE LET usable == SelectUsable(entries)
             \* the windows at which any() stops: the sum overflows or exceeds next.base
             stops == {i \in 1..(Len(usable) - 1) :
                          usable[i].base + usable[i].len > usable[i + 1].base}
             first == CHOOSE i \in stops : \A j \in stops : i <= j
         IN  IF stops = {} THEN "panic"
             ELSE IF usable[first].base + usable[first].len > USIZE_MAX THEN "panic"
             ELSE "ok"

\* The entries of the lists: a base at 0, one frame up, or one frame below
\* the top of usize; no length, one frame or two.
MapEntries ==
    {Entry(b, l, k) : b \in {0, FRAME_SIZE, (USIZE_MAX + 1) - FRAME_SIZE},
                      l \in {0, FRAME_SIZE, 2 * FRAME_SIZE},
                      k \in {"Usable", "Kernel"}}

RECURSIVE ListsUpTo(_)
ListsUpTo(n) ==
    IF n = 0 THEN {<< >>}
    ELSE ListsUpTo(n - 1)
            \cup {Append(l, e) : l \in {m \in ListsUpTo(n - 1) : Len(m) = n - 1}, e \in MapEntries}

\* The loader hands core 1 any list of entries; core 1 calls one of the two
\* MemoryMap::new on it.
InitMap ==
    /\ debug_assertions \in BOOLEAN
    /\ vec = FixedSizeVec_new
    /\ vec_op = NoCall
    /\ memory_map \in ListsUpTo(MaxEntries)
    /\ regions = << >>
    /\ last_allocation_region = 0
    /\ core = [t \in Cores |-> Idle(IF t = 1 THEN 1 ELSE 0, "none", 0, NoRet)]
    /\ held = [t \in Cores |-> << >>]
    /\ init_lock = "Incomplete"
    /\ fill_calls = 0

\* The core after a MemoryMap::new whose outcome is `outcome`.
MapReturn(c, op, outcome) ==
    IF outcome = "ok" THEN Idle(c.calls - 1, op, 0, RetUnit)
    ELSE Halt(Idle(c.calls - 1, op, 0, NoRet))

arch_boot_new(t) ==
    /\ core[t].pc = "idle"
    /\ core[t].calls > 0
    /\ core' = [core EXCEPT ![t] =
           MapReturn(@, "arch::boot::MemoryMap::new",
                     MemoryMap_new(memory_map, debug_assertions))]
    /\ UNCHANGED <<init_lock, fill_calls, debug_assertions, vec, vec_op, memory_map, regions,
                   last_allocation_region, held>>

boot_new(t) ==
    /\ core[t].pc = "idle"
    /\ core[t].calls > 0
    /\ core' = [core EXCEPT ![t] =
           MapReturn(@, "boot::MemoryMap::new",
                     boot_MemoryMap_new(memory_map, debug_assertions))]
    /\ UNCHANGED <<init_lock, fill_calls, debug_assertions, vec, vec_op, memory_map, regions,
                   last_allocation_region, held>>

MapNext == \E t \in Cores : arch_boot_new(t) \/ boot_new(t)

\* Core 1 builds a MemoryMap from a list of entries.
SpecMap == InitMap /\ [][MapNext]_vars

\* The list is not empty, ascending by base, and every Usable entry ends at
\* or before the base of the next Usable entry.
ValidMap(entries) ==
    /\ Len(entries) > 0
    /\ IsSortedByBase(entries)
    /\ \A w \in UsableWindows(entries) : w[1].base + w[1].len <= w[2].base

\* C36: in the checked build MemoryMap::new returns the map exactly when
\* the list is not empty, ascending by base and free of overlapping Usable
\* entries, and aborts on every other list.
C36_MapValidated ==
    \A t \in Cores :
        (debug_assertions
            /\ core[t].op \in {"arch::boot::MemoryMap::new", "boot::MemoryMap::new"}) =>
            ((core[t].pc = "idle") <=> ValidMap(memory_map))

\* The same for arch::boot::MemoryMap::new alone.
ArchBootMapValidated ==
    \A t \in Cores :
        (debug_assertions /\ core[t].op = "arch::boot::MemoryMap::new") =>
            ((core[t].pc = "idle") <=> ValidMap(memory_map))

\* ------------------------------------------------- FixedSizeVec operations
\* as_slice(): the elements data[..len], first to last.
Content(v) == [i \in 1..v.len |-> v.data[i - 1]]

\* index arguments of get, insert, index and index_mut
VecIndices == 0..(MAX_SIZE + 1)

\* push with the set_len left out.
FixedSizeVec_push_NoLen(v, value) ==
    IF v.len = MAX_SIZE THEN [vec |-> v, ret |-> RetErr]
    ELSE [vec |-> [v EXCEPT !.data[v.len] = value], ret |-> RetOk]

\* FixedSizeVec::push: the vector and the result after the call.
FixedSizeVec_push(v, value) ==
    IF v.len = MAX_SIZE THEN [vec |-> v, ret |-> RetErr]
    ELSE [vec |-> [data |-> [v.data EXCEPT ![v.len] = value],  \* set_unchecked(ix, value)
                   len |-> v.len + 1],                          \* set_len(len + 1)
          ret |-> RetOk]

\* FixedSizeVec::pop: the slot keeps its bytes, len drops.
FixedSizeVec_pop(v) ==
    IF v.len = 0 THEN [vec |-> v, ret |-> RetNone]
    ELSE [vec |-> [v EXCEPT !.len = v.len - 1],
          ret |-> RetSome(v.data[v.len - 1])]

\* Index::index and IndexMut::index_mut: the results the call can have.
\* An index above len panics; any other index is handed to get_unchecked,
\* which at index = MAX_SIZE is out of the array: a reference past the
\* array, or the abort of a checked get_unchecked.
FixedSizeVec_index(v, index, dbg) ==
    IF index > v.len THEN {RetPanic}
    ELSE IF index < MAX_SIZE THEN {RetRef(index)}
    ELSE {RetRef(index)} \cup (IF dbg THEN {RetPanic} ELSE {})

\* FixedSizeVec::get: Some(&self[index]) goes through Index::index.
FixedSizeVec_get(v, index, dbg) ==
    IF index < v.len
    THEN {IF r.kind = "ref" THEN RetSome(v.data[r.value]) ELSE r :
              r \in FixedSizeVec_index(v, index, dbg)}
    ELSE {RetNone}

\* data after ptr::copy(start, start + 1, len - index) and
\* set_unchecked(index, value), inside the array.
Shifted(v, index, value) ==
    [j \in 0..(MAX_SIZE - 1) |->
        IF j = index THEN value
        ELSE IF j > index /\ j <= v.len THEN v.data[j - 1]
        ELSE v.data[j]]

\* FixedSizeVec::insert: the outcomes [vec, ret] the call can have.  With
\* len = MAX_SIZE the copy writes the last element one slot past the
\* array: into memory that is not the vector's, or onto the len field
\* when that is what follows data.
FixedSizeVec_insert(v, index, value) ==
    IF index > v.len THEN {[vec |-> v, ret |-> RetPanic]}
    ELSE IF index > MAX_SIZE - 1 THEN {[vec |-> v, ret |-> RetErr]}
    ELSE {[vec |-> [data |-> Shifted(v, index, value), len |-> l], ret |-> RetOk] :
             l \in {v.len} \cup (IF v.len = MAX_SIZE THEN {v.data[MAX_SIZE - 1]} ELSE {})}

\* The owner of the vector has not panicked.
VecRunning == vec_op.ret # RetPanic

AllocatorUnchanged ==
    UNCHANGED <<debug_assertions, memory_map, regions, last_allocation_region, core,
                held, init_lock, fill_calls>>

vec_push(value) ==
    /\ VecRunning
    /\ vec' = FixedSizeVec_push(vec, value).vec
    /\ vec_op' = [op |-> "push", index |-> 0, value |-> value,
                  ret |-> FixedSizeVec_push(vec, value).ret]
    /\ AllocatorUnchanged

vec_pop ==
    /\ VecRunning
    /\ vec' = FixedSizeVec_pop(vec).vec
    /\ vec_op' = [op |-> "pop", index |-> 0, value |-> 0, ret |-> FixedSizeVec_pop(vec).ret]
    /\ AllocatorUnchanged

vec_get(index) ==
    /\ VecRunning
    /\ \E r \in FixedSizeVec_get(vec, index, debug_assertions) :
          vec_op' = [op |-> "get", index |-> index, value |-> 0, ret |-> r]
    /\ UNCHANGED vec
    /\ AllocatorUnchanged

vec_insert(index, value) ==
    /\ VecRunning
    /\ \E o \in FixedSizeVec_insert(vec, index, value) :
          /\ vec' = o.vec
          /\ vec_op' = [op |-> "insert", index |-> index, value |-> value, ret |-> o.ret]
    /\ AllocatorUnchanged

vec_index(index) ==
    /\ VecRunning
    /\ \E r \in FixedSizeVec_index(vec, index, debug_assertions) :
          vec_op' = [op |-> "index", index |-> index, value |-> 0, ret |-> r]
    /\ UNCHANGED vec
    /\ AllocatorUnchanged

vec_index_mut(index) ==
    /\ VecRunning
    /\ \E r \in FixedSizeVec_index(vec, index, debug_assertions) :
          vec_op' = [op |-> "index_mut", index |-> index, value |-> 0, ret |-> r]
    /\ UNCHANGED vec
    /\ AllocatorUnchanged

\* A new vector; the allocator is not involved.
InitVec ==
    /\ debug_assertions \in BOOLEAN
    /\ vec = FixedSizeVec_new
    /\ vec_op = NoCall
    /\ memory_map = << >>
    /\ regions = << >>
    /\ last_allocation_region = 0
    /\ core = [t \in Cores |-> Idle(0, "none", 0, NoRet)]
    /\ held = [t \in Cores |-> << >>]
    /\ init_lock = "Incomplete"
    /\ fill_calls = 0

StackNext ==
    \/ \E value \in Values : vec_push(value)
    \/ vec_pop
    \/ \E index \in VecIndices : vec_get(index)

VecNext ==
    \/ \E value \in Values : vec_push(value)
    \/ vec_pop
    \/ \E index \in VecIndices : vec_get(index)
    \/ \E index \in VecIndices, value \in Values : vec_insert(index, value)
    \/ \E index \in VecIndices : vec_index(index)
    \/ \E index \in VecIndices : vec_index_mut(index)

\* The vector under push, pop and get only.
SpecStack == InitVec /\ [][StackNext]_vars
\* The vector under every operation of the model.
SpecVec == InitVec /\ [][VecNext]_vars

\* C37: the vector is a bounded stack: push below MAX_SIZE returns Ok, adds
\* one to len and makes the value the last element; push at MAX_SIZE
\* returns Err and changes nothing; pop returns the last element and takes
\* one from len, or returns None on an empty vector; get(i) is Some, of
\* the element at i, exactly when i < len.
C37_BoundedStack ==
    [][LET o == vec_op'
       IN  /\ o.op = "push" =>
                IF vec.len < MAX_SIZE
                THEN /\ o.ret = RetOk
                     /\ vec'.len = vec.len + 1
                     /\ Content(vec') = Append(Content(vec), o.value)
                ELSE o.ret = RetErr /\ vec' = vec
           /\ o.op = "pop" =>
                IF vec.len = 0
                THEN o.ret = RetNone /\ vec' = vec
                ELSE /\ o.ret = RetSome(Content(vec)[vec.len])
                     /\ vec'.len = vec.len - 1
                     /\ Content(vec') = SubSeq(Content(vec), 1, vec.len - 1)
           /\ o.op = "get" =>
                /\ vec' = vec
                /\ IF o.index < vec.len
                   THEN o.ret = RetSome(Content(vec)[o.index + 1])
                   ELSE o.ret = RetNone
      ]_vars

\* A pop has returned the last element of a full vector.
C37_Witness ==
    /\ vec_op.op = "pop"
    /\ vec_op.ret.kind = "Some"
    /\ vec.len = MAX_SIZE - 1

\* The sequence with value put in before position index + 1.
Inserted(seq, index, value) ==
    [i \in 1..(Len(seq) + 1) |->
        IF i <= index THEN seq[i]
        ELSE IF i = index + 1 THEN value
        ELSE seq[i - 1]]

\* C38: insert(index, value) with index <= len < MAX_SIZE returns Ok, len
\* grows by one, value is at index, the elements from index on sit one
\* position higher and those below index are as before; with index > len
\* the call panics.
C38_InsertShifts ==
    [][LET o == vec_op'
       IN  o.op = "insert" =>
               IF o.index > vec.len THEN o.ret = RetPanic
               ELSE vec.len < MAX_SIZE =>
                       /\ o.ret = RetOk
                       /\ vec'.len = vec.len + 1
                       /\ Content(vec') = Inserted(Content(vec), o.index, o.value)
      ]_vars

\* C39: Index and IndexMut with an index at or above len panic, and hand
\* out no reference to a slot at or above len.
C39_IndexChecked ==
    (vec_op.op \in {"index", "index_mut"} /\ vec_op.index >= vec.len) =>
        vec_op.ret = RetPanic

====
